---- MODULE Spec2Model ----
(***************************************************************************)
(* A model of one motoboto_benchmark customer (BaseCustomer): the main     *)
(* loop, the ten action handlers, the retry loops, the verification        *)
(* ledger (key_verification), the per-bucket accounting and the two name   *)
(* managers, run against a model of the storage service (the collaborator  *)
(* reached through motoboto).                                              *)
(*                                                                         *)
(* One step of the model is the code between two suspension points: one    *)
(* collaborator call together with the bookkeeping around it, or one       *)
(* return of halt_event.wait.  The halt event may be set between any two   *)
(* steps, and during a collaborator call where the code reads the event    *)
(* right after the call.                                                   *)
(*                                                                         *)
(* Names.  A bucket name is a number: 0 is the default collection, n >= 1  *)
(* is the reserved collection whose name ends in "%08d" % n.  A key name   *)
(* is the number n of "key-%08d" % n.  Version identifiers and multipart   *)
(* upload identifiers are numbers the storage service hands out.           *)
(***************************************************************************)
EXTENDS Integers, Sequences, FiniteSets, TLC

VARIABLES
    pc,                       \* position of the customer in _main_loop
    halt_event,               \* self._halt_event.is_set()
    cfg,                      \* self._test_script (fixed for a run)
    error_count,              \* self._error_count
    buckets,                  \* self._buckets: name -> bucket object
    bucket_accounting,        \* self._bucket_accounting: name -> counters
    versioned_bucket_names,   \* self._versioned_bucket_names (a list)
    unversioned_bucket_names, \* self._unversioned_bucket_names (a list)
    bucket_name_manager,      \* BucketNameManager: highest value, deleted names
    max_key_value,            \* KeyNameManager._max_key_value
    key_verification,         \* (bucket, key, version) -> (size, md5)
    loc,                      \* the local variables of the handler in progress
    server,                   \* the storage service: buckets, objects, next id
    source_pos,               \* read position of FAST_DATA_SOURCE
    outcome,                  \* how the last handler ended
    limits,                   \* the bounds of the run: actions and faults
    used                      \* what the run has consumed of its bounds

vars == <<pc, halt_event, cfg, error_count, buckets, bucket_accounting,
          versioned_bucket_names, unversioned_bucket_names,
          bucket_name_manager, max_key_value, key_verification, loc,
          server, source_pos, outcome, limits, used>>

customer_vars == <<error_count, buckets, bucket_accounting,
          versioned_bucket_names, unversioned_bucket_names,
          bucket_name_manager, max_key_value, key_verification>>

-----------------------------------------------------------------------------
(* Bounds of the model *)

\* number of actions the main loop dispatches in one run
MaxActions == 2
\* number of faulty answers (errors, retryable errors, corrupted reads) the
\* storage service gives in one run
MaxFaults == 1
\* length of the file FAST_DATA_SOURCE loops over
SourceLen == 2
\* test_script["multipart-part-size"]
PartSize == 1
\* test_script["max-bucket-count"]
MaxBucketCount == 2
\* number of actions dispatched in a run checked for termination
MaxActionsHalt == 1
\* largest test_script["multipart-part-size"] of the runs that check how a
\* size is divided into parts
MaxPartSize == 3
\* number of actions dispatched in a run that creates and deletes buckets
MaxActionsNames == 4
\* number of actions dispatched in a run of one of the test scripts that
\* differ by their distribution
MaxActionsTable == 3

(* Program constants *)
_max_archive_retries == 10
_max_delete_retries == 10

\* test_script["min-file-size"], test_script["max-file-size"]: the sizes drawn
\* straddle the multipart cutoff
MinFileSize == 2 * PartSize
MaxFileSize == 2 * PartSize + 1

\* the default collection (compute_default_collection_name)
DefaultBucket == 0

ActionNames == {"create-bucket", "create-versioned-bucket", "delete-bucket",
                "archive-new-key", "archive-new-version", "archive-overwrite",
                "retrieve-latest", "retrieve-version", "delete-key",
                "delete-version"}

-----------------------------------------------------------------------------
(* Pure helpers *)

Max(a, b) == IF a >= b THEN a ELSE b

Range(s) == {s[i] : i \in DOMAIN s}

RECURSIVE SeqSum(_)
SeqSum(s) == IF s = <<>> THEN 0 ELSE Head(s) + SeqSum(Tail(s))

\* the list without its element at index i (del list[i])
DelAt(s, i) == SubSeq(s, 1, i - 1) \o SubSeq(s, i + 1, Len(s))

\* list.index(x): the first index holding x, 0 for ValueError
IndexOf(s, x) ==
    IF x \in Range(s) THEN CHOOSE i \in DOMAIN s :
                               s[i] = x /\ \A j \in 1..(i - 1) : s[j] # x
    ELSE 0

\* dictionary update d[k] = v and deletion del d[k]
Put(d, k, v) == [x \in DOMAIN d \cup {k} |-> IF x = k THEN v ELSE d[x]]
\* a dictionary from which nothing is removed
Kept(d, ks) == d
Drop(d, ks) == [x \in DOMAIN d \ ks |-> d[x]]

\* FAST_DATA_SOURCE(amount) with the file position at pos: the file holds
\* the bytes 0 .. SourceLen-1 and the read wraps around
SourceData(pos, amount) == [i \in 1..amount |-> (pos + i - 1) % SourceLen]

\* hashlib.md5(data).digest(): a digest the model computes from the content,
\* one number per byte sequence over the source alphabet
RECURSIVE Md5(_)
Md5(data) ==
    IF data = <<>> THEN 0
    ELSE (Head(data) + 1) + (SourceLen + 1) * Md5(Tail(data))

\* CollectionOpsAccounting.__init__
NewAccounting ==
    [retrieve_request |-> 0, retrieve_success |-> 0, retrieve_error |-> 0,
     archive_request |-> 0, archive_success |-> 0, archive_error |-> 0,
     listmatch_request |-> 0, listmatch_success |-> 0, listmatch_error |-> 0,
     delete_request |-> 0, delete_success |-> 0, delete_error |-> 0,
     socket_bytes_in |-> 0, socket_bytes_out |-> 0,
     success_bytes_in |-> 0, success_bytes_out |-> 0,
     error_bytes_in |-> 0, error_bytes_out |-> 0,
     end_marks |-> 0]

\* an increment that counts every call as one
increment_by_one(acc, b, key, value) == [acc EXCEPT ![b][key] = @ + 1]
\* CollectionOpsAccounting.increment_by on the instance of bucket b
increment_by(acc, b, key, value) == [acc EXCEPT ![b][key] = @ + value]

\* CollectionOpsAccounting.mark_end on the instance of bucket b; end_marks
\* counts the calls (_end_timestamp is set when it is positive)
mark_end(acc, b) == [acc EXCEPT ![b].end_marks = @ + 1]

-----------------------------------------------------------------------------
(* The storage service *)

\* the six fields _audit_after compares
AuditFields == {"archive_success", "success_bytes_in", "retrieve_success",
                "success_bytes_out", "delete_success", "listmatch_success"}

\* the operational statistics of a bucket nothing was done to
NoServerData == [f \in AuditFields |-> 0]

\* the service counts an operation it served for bucket b
Counted(srv, b, field, value) ==
    [srv EXCEPT !.stats[b][field] = @ + value]

\* the objects of bucket b the service holds: records [b, k, v, data]
ObjectsOf(srv, b) == {o \in srv.objects : o.b = b}

\* a set of objects as the list the service returns, by key and version
RECURSIVE ListOf(_)
ListOf(S) ==
    IF S = {} THEN <<>>
    ELSE LET first == CHOOSE o \in S : \A p \in S :
                          o.k < p.k \/ (o.k = p.k /\ o.v <= p.v)
         IN  <<first>> \o ListOf(S \ {first})

\* bucket.get_all_versions(): every version of every key
get_all_versions(srv, b) == ListOf(ObjectsOf(srv, b))

\* bucket.get_all_keys(): the latest version of every key
get_all_keys(srv, b) ==
    ListOf({o \in ObjectsOf(srv, b) :
               \A p \in ObjectsOf(srv, b) : p.k = o.k => p.v <= o.v})

\* connection.get_all_buckets(): the names, in order
RECURSIVE SortNames(_)
SortNames(S) ==
    IF S = {} THEN <<>>
    ELSE LET first == CHOOSE n \in S : \A m \in S : n <= m
         IN  <<first>> \o SortNames(S \ {first})

get_all_buckets(srv) == SortNames(DOMAIN srv.buckets)

\* the service stores data under (b, k) as version v: a versioned bucket
\* keeps the older versions, an unversioned one replaces them
StoreObject(srv, b, k, v, data) ==
    Counted(Counted(
        [srv EXCEPT !.objects =
            (IF srv.buckets[b] THEN @ ELSE {o \in @ : ~(o.b = b /\ o.k = k)})
            \cup {[b |-> b, k |-> k, v |-> v, data |-> data]}],
        b, "archive_success", 1), b, "success_bytes_in", Len(data))

\* key.delete(): every version of the key goes
DeleteKey(srv, b, k) ==
    Counted([srv EXCEPT !.objects = {o \in @ : ~(o.b = b /\ o.k = k)}],
            b, "delete_success", 1)

\* key.delete(version_id=v): that version goes
DeleteVersion(srv, b, k, v) ==
    Counted([srv EXCEPT !.objects =
                {o \in @ : ~(o.b = b /\ o.k = k /\ o.v = v)}],
            b, "delete_success", 1)

\* the service has served a listing of bucket b
Listed(srv, b) == Counted(srv, b, "listmatch_success", 1)

\* the service has served a read of n bytes from bucket b
Served(srv, b, n) ==
    Counted(Counted(srv, b, "retrieve_success", 1), b, "success_bytes_out", n)

\* connection.create_bucket(name): a new unversioned bucket
CreateBucket(srv, b) ==
    [srv EXCEPT !.buckets = Put(@, b, FALSE),
                !.stats = Put(@, b, NoServerData)]

\* bucket.configure_versioning(True)
ConfigureVersioning(srv, b) ==
    [srv EXCEPT !.buckets = Put(@, b, TRUE)]

\* connection.delete_bucket(name): the bucket goes with what it holds
DeleteBucket(srv, b) ==
    [srv EXCEPT !.buckets = Drop(@, {b}),
                !.objects = {o \in @ : o.b # b},
                !.stats = Drop(@, {b})]

\* what a read may deliver instead of the stored data when the service is
\* at fault: the data cut short, or the data with its first byte changed
Corrupted(data) ==
    {SubSeq(data, 1, Len(data) - 1),
     [data EXCEPT ![1] = (@ + 1) % SourceLen]}

\* the answers of one collaborator call that the bounds still allow
\* ("ok" always; "error" any failure that is no retryable error)
MayFault == used.faults < limits.faults
MayRetry == MayFault

PlainAnswers == {"ok"} \cup (IF MayFault THEN {"error"} ELSE {})
RetryAnswers == PlainAnswers \cup (IF MayRetry THEN {"retryable"} ELSE {})

\* the bounds consumed by the answer of a collaborator call, and the count
\* of the calls made
UsedAfter(answer) ==
    [used EXCEPT
        !.calls = @ + 1,
        !.faults = IF answer \in {"error", "notfound", "httperror", "corrupt",
                                  "retryable", "failed", "misreport",
                                  "short"}
                   THEN @ + 1 ELSE @]

-----------------------------------------------------------------------------
(* Initial states *)

NoLocals ==
    [action |-> "none", bucket |-> -1, key_name |-> -1, version |-> -1,
     size |-> 0, replace |-> TRUE, retry_count |-> 0, calls |-> 0,
     force_error |-> FALSE, versioning |-> FALSE, audit_error_count |-> 0,
     part_sizes |-> <<>>, part_num |-> 0,
     upload_id |-> -1, data |-> <<>>, keys |-> <<>>, bucket_list |-> <<>>,
     result |-> "unset"]

\* no handler has run since the last delay; a record of how a handler ended
\* holds its name, "raised" or "returned", the way it ended, and the error
\* count and the number of failed calls at the time it was started
NoOutcome ==
    [action |-> "none", result |-> "none", detail |-> "none", errors |-> 0,
     faults |-> 0]

\* a storage service holding the default collection only
EmptyService ==
    [buckets |-> (DefaultBucket :> FALSE), objects |-> {}, next_id |-> 1,
     stats |-> (DefaultBucket :> NoServerData)]

\* a storage service left by an earlier run: key 1 in the default
\* collection, two versions of key 2 in the versioned bucket 1
UsedService ==
    [buckets |-> (DefaultBucket :> FALSE) @@ (1 :> TRUE),
     objects |-> {[b |-> DefaultBucket, k |-> 1, v |-> 1,
                   data |-> SourceData(0, MinFileSize)],
                  [b |-> 1, k |-> 2, v |-> 2,
                   data |-> SourceData(0, MinFileSize)],
                  [b |-> 1, k |-> 2, v |-> 3,
                   data |-> SourceData(1, MinFileSize)]},
     next_id |-> 4,
     stats |-> (DefaultBucket :> NoServerData) @@ (1 :> NoServerData)]

\* a storage service holding the default collection and the empty reserved
\* collections of the given numbers
ServiceWith(names) ==
    [buckets |-> [b \in names \cup {DefaultBucket} |-> FALSE],
     objects |-> {}, next_id |-> 1,
     stats |-> [b \in names \cup {DefaultBucket} |-> NoServerData]]

\* a distribution giving every action the weight 10
EvenDistribution == [a \in ActionNames |-> 10]

\* BaseCustomer.__init__ and the state of the world it starts in
InitWith(test_scripts, services, max_actions, max_faults) ==
    /\ pc = "connect"
    /\ halt_event = FALSE
    /\ cfg \in test_scripts
    /\ error_count = 0
    /\ buckets = << >>
    /\ bucket_accounting = << >>
    /\ versioned_bucket_names = << >>
    /\ unversioned_bucket_names = << >>
    /\ bucket_name_manager = [highest_bucket_value |-> 0,
                              deleted_bucket_names |-> << >>]
    /\ max_key_value = 0
    /\ key_verification = << >>
    /\ loc = NoLocals
    /\ server \in services
    /\ source_pos = 0
    /\ outcome = NoOutcome
    /\ limits = [actions |-> max_actions, faults |-> max_faults]
    /\ used = [actions |-> 0, faults |-> 0, calls |-> 0]

\* a test script: the distribution of the actions, the three flags
\* verify-before, verify-after and audit-after, archive-failure-percent,
\* max-bucket-count, and the sizes: multipart-part-size, min-file-size,
\* max-file-size
TestScript(distribution, checks, percent) ==
    [distribution |-> distribution,
     verify_before |-> checks, verify_after |-> checks,
     audit_after |-> checks, archive_failure_percent |-> percent,
     max_bucket_count |-> MaxBucketCount,
     multipart_part_size |-> PartSize,
     min_file_size |-> MinFileSize, max_file_size |-> MaxFileSize]

\* every phase of _main_loop with half of the archives forced to fail, and
\* the action loop alone with none
TestScripts == {TestScript(EvenDistribution, TRUE, 50),
                TestScript(EvenDistribution, FALSE, 0)}

Init == InitWith(TestScripts, {EmptyService, UsedService},
                 MaxActions, MaxFaults)

-----------------------------------------------------------------------------
(* The name managers *)

\* an existing_bucket_name that takes the value seen for the highest
existing_name_taken(bnm, name) ==
    IF name # DefaultBucket
    THEN [bnm EXCEPT !.highest_bucket_value = name]
    ELSE bnm

\* BucketNameManager.existing_bucket_name: the default collection does not
\* start with the reserved prefix; a reserved name raises the highest value
existing_bucket_name(bnm, name) ==
    IF name # DefaultBucket
    THEN [bnm EXCEPT !.highest_bucket_value = Max(@, name)]
    ELSE bnm

\* the assertion of existing_bucket_name
existing_bucket_name_ok(name) ==
    name # DefaultBucket => name <= cfg.max_bucket_count

\* BucketNameManager.deleted_bucket_name
deleted_bucket_name(bnm, name) ==
    IF name \in Range(bnm.deleted_bucket_names)
    THEN bnm
    ELSE [bnm EXCEPT !.deleted_bucket_names = Append(@, name)]

\* a next that hands out the name deleted first
next_name_first_deleted(bnm) ==
    IF bnm.highest_bucket_value < cfg.max_bucket_count
    THEN bnm.highest_bucket_value + 1
    ELSE IF Len(bnm.deleted_bucket_names) > 0
         THEN bnm.deleted_bucket_names[1]
         ELSE -1

\* BucketNameManager.next: the name returned (-1 for None)
next_name(bnm) ==
    IF bnm.highest_bucket_value < cfg.max_bucket_count
    THEN bnm.highest_bucket_value + 1
    ELSE IF Len(bnm.deleted_bucket_names) > 0
         THEN bnm.deleted_bucket_names[Len(bnm.deleted_bucket_names)]
         ELSE -1

\* a next that leaves the highest value where it was
next_manager_not_advanced(bnm) ==
    IF bnm.highest_bucket_value < cfg.max_bucket_count
    THEN bnm
    ELSE IF Len(bnm.deleted_bucket_names) > 0
         THEN [bnm EXCEPT !.deleted_bucket_names =
                              SubSeq(@, 1, Len(@) - 1)]
         ELSE bnm

\* BucketNameManager.next: the manager afterwards
next_manager(bnm) ==
    IF bnm.highest_bucket_value < cfg.max_bucket_count
    THEN [bnm EXCEPT !.highest_bucket_value = @ + 1]
    ELSE IF Len(bnm.deleted_bucket_names) > 0
         THEN [bnm EXCEPT !.deleted_bucket_names =
                              SubSeq(@, 1, Len(@) - 1)]
         ELSE bnm

\* an existing_key_name that does not take note of the keys
existing_key_names_unseen(value, keys) == value

\* KeyNameManager.existing_key_name over the keys of a listing
RECURSIVE existing_key_names(_, _)
existing_key_names(value, keys) ==
    IF keys = <<>> THEN value
    ELSE existing_key_names(Max(value, Head(keys).k), Tail(keys))

-----------------------------------------------------------------------------
(* The frequency table *)

\* a table of 100 slots that all hold the handler of one action
FrequencyTableOfOne(distribution, names) ==
    [i \in 1..100 |-> CHOOSE n \in names : TRUE]

\* _load_frequency_table: for each action of the distribution, weight
\* copies of its handler (a negative weight gives none)
RECURSIVE FrequencyTable(_, _)
FrequencyTable(distribution, names) ==
    IF names = {} THEN <<>>
    ELSE LET a == CHOOSE n \in names : TRUE
         IN  [i \in 1..Max(distribution[a], 0) |-> a]
             \o FrequencyTable(distribution, names \ {a})

frequency_table == FrequencyTable(cfg.distribution, DOMAIN cfg.distribution)

-----------------------------------------------------------------------------
(* Startup: connect, _initial_inventory, _verify_before,                   *)
(* _load_frequency_table, the first _delay                                 *)

\* an exception leaves _main_loop
MainLoopRaises ==
    /\ pc' = "raised"
    /\ outcome' = [action |-> pc, result |-> "escaped", detail |-> "error",
                   errors |-> error_count, faults |-> used.faults]

\* motoboto.connect_s3
Connect ==
    /\ pc = "connect"
    /\ \E answer \in PlainAnswers :
          /\ used' = UsedAfter(answer)
          /\ IF answer = "ok"
             THEN pc' = "inventory" /\ UNCHANGED outcome
             ELSE MainLoopRaises
    /\ UNCHANGED <<halt_event, cfg, limits, customer_vars, loc, server,
                   source_pos>>

\* _initial_inventory: get_all_buckets
InitialInventory ==
    /\ pc = "inventory"
    /\ \E answer \in PlainAnswers :
          /\ used' = UsedAfter(answer)
          /\ IF answer = "ok"
             THEN /\ pc' = "inventory-bucket"
                  /\ loc' = [loc EXCEPT
                                !.bucket_list = get_all_buckets(server)]
                  /\ UNCHANGED outcome
             ELSE MainLoopRaises /\ UNCHANGED loc
    /\ UNCHANGED <<halt_event, cfg, limits, customer_vars, server,
                   source_pos>>

\* where _main_loop goes after _initial_inventory
AfterInventory ==
    IF cfg.verify_before THEN "verify-before" ELSE "load-frequency-table"

\* _initial_inventory: the body of the loop over the buckets
InitialInventoryBucket ==
    /\ pc = "inventory-bucket"
    /\ IF loc.bucket_list = <<>>
       THEN /\ pc' = AfterInventory
            /\ UNCHANGED <<customer_vars, loc, server, outcome, used>>
       ELSE LET b == Head(loc.bucket_list)
                acc1 == increment_by(Put(bucket_accounting, b, NewAccounting),
                                     b, "listmatch_request", 1)
            IN
            /\ buckets' = Put(buckets, b, [versioning |-> server.buckets[b]])
            /\ IF ~existing_bucket_name_ok(b)
               THEN /\ MainLoopRaises
                    /\ UNCHANGED <<bucket_name_manager,
                                   versioned_bucket_names,
                                   unversioned_bucket_names,
                                   bucket_accounting, max_key_value, loc,
                                   server, used>>
               ELSE
               /\ bucket_name_manager' =
                      existing_bucket_name(bucket_name_manager, b)
               /\ versioned_bucket_names' =
                      IF server.buckets[b]
                      THEN Append(versioned_bucket_names, b)
                      ELSE versioned_bucket_names
               /\ unversioned_bucket_names' =
                      IF server.buckets[b]
                      THEN unversioned_bucket_names
                      ELSE Append(unversioned_bucket_names, b)
               /\ \E answer \in PlainAnswers :
                     /\ used' = UsedAfter(answer)
                     /\ IF answer = "ok"
                        THEN /\ bucket_accounting' =
                                  increment_by(acc1, b, "listmatch_success", 1)
                             /\ max_key_value' = existing_key_names(
                                    max_key_value, get_all_keys(server, b))
                             /\ server' = Listed(server, b)
                             /\ loc' = [loc EXCEPT !.bucket_list = Tail(@)]
                             /\ pc' = "inventory-bucket"
                             /\ UNCHANGED outcome
                        ELSE /\ bucket_accounting' = acc1
                             /\ MainLoopRaises
                             /\ UNCHANGED <<max_key_value, loc, server>>
            /\ UNCHANGED <<error_count, key_verification>>
    /\ UNCHANGED <<halt_event, cfg, limits, source_pos>>

\* the listing a verification pass or a bucket teardown asks for
ListingOf(srv, b) ==
    IF srv.buckets[b] THEN get_all_versions(srv, b) ELSE get_all_keys(srv, b)

\* what key.get_contents_as_string / get_contents_to_file may deliver
ReadAnswers ==
    PlainAnswers \cup (IF MayFault THEN {"corrupt"} ELSE {})
DataRead(answer, data) ==
    IF answer = "corrupt" THEN Corrupted(data) ELSE {data}

\* the md5 recorded for a multipart archive
None == -1

\* _verify_before: get_all_buckets
VerifyBefore ==
    /\ pc = "verify-before"
    /\ \E answer \in PlainAnswers :
          /\ used' = UsedAfter(answer)
          /\ IF answer = "ok"
             THEN /\ pc' = "verify-before-bucket"
                  /\ loc' = [loc EXCEPT
                                !.bucket_list = get_all_buckets(server)]
                  /\ UNCHANGED outcome
             ELSE MainLoopRaises /\ UNCHANGED loc
    /\ UNCHANGED <<halt_event, cfg, limits, customer_vars, server,
                   source_pos>>

\* _verify_before: one bucket, up to its listing
VerifyBeforeBucket ==
    /\ pc = "verify-before-bucket"
    /\ IF loc.bucket_list = <<>>
       THEN /\ pc' = "load-frequency-table"
            /\ UNCHANGED <<bucket_accounting, loc, server, outcome, used>>
       ELSE LET b == Head(loc.bucket_list) IN
            IF b \notin DOMAIN bucket_accounting
            THEN /\ MainLoopRaises
                 /\ UNCHANGED <<bucket_accounting, loc, server, used>>
            ELSE
            /\ bucket_accounting' =
                   increment_by(bucket_accounting, b, "listmatch_request", 1)
            /\ \E answer \in PlainAnswers :
                  /\ used' = UsedAfter(answer)
                  /\ IF answer = "ok"
                     THEN /\ pc' = "verify-before-key"
                          /\ loc' = [loc EXCEPT
                                        !.bucket = b,
                                        !.keys = ListingOf(server, b)]
                          /\ server' = Listed(server, b)
                          /\ UNCHANGED outcome
                     ELSE MainLoopRaises /\ UNCHANGED <<loc, server>>
    /\ UNCHANGED <<halt_event, cfg, limits, error_count, buckets,
                   versioned_bucket_names, unversioned_bucket_names,
                   bucket_name_manager, max_key_value, key_verification,
                   source_pos>>

\* _verify_before: one key of the listing is read and recorded
VerifyBeforeKey ==
    /\ pc = "verify-before-key"
    /\ IF loc.keys = <<>>
       THEN /\ bucket_accounting' = increment_by(bucket_accounting,
                                        loc.bucket, "listmatch_success", 1)
            /\ loc' = [loc EXCEPT !.bucket_list = Tail(@)]
            /\ pc' = "verify-before-bucket"
            /\ UNCHANGED <<key_verification, server, outcome, used>>
       ELSE LET key == Head(loc.keys) IN
            /\ \E answer \in ReadAnswers :
                  /\ used' = UsedAfter(answer)
                  /\ IF answer = "error"
                     THEN /\ MainLoopRaises
                          /\ UNCHANGED <<key_verification, loc, server>>
                     ELSE \E result \in DataRead(answer, key.data) :
                          /\ key_verification' =
                                 Put(key_verification,
                                     <<loc.bucket, key.k, key.v>>,
                                     <<Len(result), Md5(result)>>)
                          /\ server' = Served(server, loc.bucket,
                                              Len(result))
                          /\ loc' = [loc EXCEPT !.keys = Tail(@)]
                          /\ pc' = "verify-before-key"
                          /\ UNCHANGED outcome
            /\ UNCHANGED bucket_accounting
    /\ UNCHANGED <<halt_event, cfg, limits, error_count, buckets,
                   versioned_bucket_names, unversioned_bucket_names,
                   bucket_name_manager, max_key_value, source_pos>>

\* _load_frequency_table with its assertion, then the key name generator
LoadFrequencyTable ==
    /\ pc = "load-frequency-table"
    /\ IF /\ DOMAIN cfg.distribution \subseteq ActionNames
          /\ Len(frequency_table) = 100
       THEN pc' = "delay" /\ UNCHANGED outcome
       ELSE MainLoopRaises
    /\ UNCHANGED <<halt_event, cfg, limits, customer_vars, loc, server,
                   source_pos,
                   used>>

-----------------------------------------------------------------------------
(* The main loop *)

\* where _main_loop goes when the loop ends, and after _verify_after
AfterLoop ==
    IF cfg.verify_after THEN "verify-after"
    ELSE IF cfg.audit_after THEN "audit-after" ELSE "close"
AfterVerifyAfter == IF cfg.audit_after THEN "audit-after" ELSE "close"

\* _delay: halt_event.wait returns, at the timeout or when the event is set
Delay ==
    /\ pc = "delay"
    /\ pc' = "loop"
    /\ loc' = NoLocals
    /\ outcome' = NoOutcome
    /\ UNCHANGED <<halt_event, cfg, limits, customer_vars, server,
                   source_pos, used>>

\* a loop that does not test the halt event
LoopForever(halted) == TRUE

\* "while not self._halt_event.is_set()": the loop goes on
LoopContinues(halted) == ~halted

\* the test of the loop and the choice of a test function
MainLoop ==
    /\ pc = "loop"
    /\ IF LoopContinues(halt_event)
       THEN /\ used.actions < limits.actions
            /\ \E i \in 0..99 :
                  LET test_function == frequency_table[i + 1] IN
                  /\ pc' = test_function
                  /\ loc' = [NoLocals EXCEPT !.action = test_function]
                  /\ outcome' = [action |-> test_function,
                                 result |-> "running", detail |-> "none",
                                 errors |-> error_count, faults |-> used.faults]
            /\ used' = [used EXCEPT !.actions = @ + 1]
       ELSE /\ pc' = AfterLoop
            /\ UNCHANGED <<loc, outcome, used>>
    /\ UNCHANGED <<halt_event, cfg, limits, customer_vars, server,
                   source_pos>>

\* a handler of errors that catches without counting
ErrorSwallowed(count) == count

\* the error count after "except Exception" caught an error
ErrorCaught(count) == count + 1

\* the test function raised: lines 106-110 catch, count and go on to _delay
test_function_raises(detail) ==
    /\ error_count' = ErrorCaught(error_count)
    /\ pc' = "delay"
    /\ outcome' = [outcome EXCEPT !.result = "raised", !.detail = detail]

\* a test function whose return skips _delay
returns_without_delay(detail) ==
    /\ pc' = "loop"
    /\ outcome' = [outcome EXCEPT !.result = "returned", !.detail = detail]

\* the test function returned
test_function_returns(detail) ==
    /\ pc' = "delay"
    /\ outcome' = [outcome EXCEPT !.result = "returned", !.detail = detail]

\* connection.close() and the end of _main_loop
Close ==
    /\ pc = "close"
    /\ pc' = "done"
    /\ UNCHANGED <<halt_event, cfg, limits, customer_vars, loc, server,
                   source_pos,
                   outcome, used>>

\* the halt event is set (SIGTERM, or the end of the test duration)
SetHalt ==
    /\ ~halt_event
    /\ pc \notin {"done", "raised"}
    /\ halt_event' = TRUE
    /\ UNCHANGED <<pc, cfg, limits, customer_vars, loc, server, source_pos,
                   outcome,
                   used>>

-----------------------------------------------------------------------------
(* The retry loops *)

\* a retry loop that does not test the halt event
RetryLoopForever(halted) == TRUE

\* "while not self._halt_event.is_set()" at the head of a retry loop
RetryLoopRuns(halted) == ~halted

\* a ceiling tested with > in place of >=
RetriesExceeded(retry_count, max_retries) == retry_count > max_retries

\* "if retry_count >= _max_..._retries: raise"
RetriesExhausted(retry_count, max_retries) == retry_count >= max_retries

\* the loop each backoff wait belongs to
LoopOfWait ==
    ("clear-bucket-wait" :> "clear-bucket")
    @@ ("archive-one-file-wait" :> "archive-one-file")
    @@ ("initiate-multipart-wait" :> "initiate-multipart")
    @@ ("upload-part-wait" :> "upload-part")
    @@ ("complete-upload-wait" :> "complete-upload")
    @@ ("delete-key-wait" :> "delete-key-loop")
    @@ ("delete-version-wait" :> "delete-version-loop")

\* halt_event.wait(timeout=instance.retry_after) returns, at the timeout or
\* when the event is set; retry_count += 1; back to the test of the loop
RetryWait ==
    /\ pc \in DOMAIN LoopOfWait
    /\ pc' = LoopOfWait[pc]
    /\ loc' = [loc EXCEPT !.retry_count = @ + 1]
    /\ UNCHANGED <<halt_event, cfg, limits, customer_vars, server, source_pos,
                   outcome, used>>

-----------------------------------------------------------------------------
(* create-bucket, create-versioned-bucket *)

\* the ceiling test taken to hold only above max-bucket-count
BucketCeilingPassed ==
    Cardinality(DOMAIN buckets) > cfg.max_bucket_count

\* _create_unversioned_bucket: len(self._buckets) >= max-bucket-count, the
\* default collection counted
BucketCeilingReached ==
    Cardinality(DOMAIN buckets) >= cfg.max_bucket_count

\* _create_unversioned_bucket, then the rest of _create_bucket or the call
\* of configure_versioning
CreateUnversionedBucket ==
    /\ pc \in {"create-bucket", "create-versioned-bucket"}
    /\ IF BucketCeilingReached
       THEN /\ test_function_returns("ignored")
            /\ UNCHANGED <<customer_vars, loc, server, used>>
       ELSE LET bucket_name == next_name(bucket_name_manager) IN
            /\ bucket_name_manager' = next_manager(bucket_name_manager)
            /\ IF bucket_name = -1
               THEN /\ test_function_returns("ignored")
                    /\ UNCHANGED <<error_count, buckets, bucket_accounting,
                                   unversioned_bucket_names, loc, server,
                                   used>>
               ELSE \E answer \in PlainAnswers :
                    /\ used' = UsedAfter(answer)
                    /\ IF answer = "ok"
                       THEN /\ server' = CreateBucket(server, bucket_name)
                            /\ buckets' = Put(buckets, bucket_name,
                                              [versioning |-> FALSE])
                            /\ bucket_accounting' =
                                   Put(bucket_accounting, bucket_name,
                                       NewAccounting)
                            /\ loc' = [loc EXCEPT !.bucket = bucket_name]
                            /\ IF pc = "create-bucket"
                               THEN /\ unversioned_bucket_names' =
                                         Append(unversioned_bucket_names,
                                                bucket_name)
                                    /\ test_function_returns("created")
                               ELSE /\ pc' = "configure-versioning"
                                    /\ UNCHANGED <<unversioned_bucket_names,
                                                   outcome>>
                            /\ UNCHANGED error_count
                       ELSE /\ test_function_raises("error")
                            /\ UNCHANGED <<buckets, bucket_accounting,
                                           unversioned_bucket_names, loc,
                                           server>>
    /\ UNCHANGED <<halt_event, cfg, limits, versioned_bucket_names,
                   max_key_value,
                   key_verification, source_pos>>

\* _create_versioned_bucket: bucket.configure_versioning(True)
ConfigureVersioningCall ==
    /\ pc = "configure-versioning"
    /\ \E answer \in PlainAnswers :
          /\ used' = UsedAfter(answer)
          /\ IF answer = "ok"
             THEN /\ server' = ConfigureVersioning(server, loc.bucket)
                  /\ buckets' = [buckets EXCEPT
                                    ![loc.bucket].versioning = TRUE]
                  /\ versioned_bucket_names' =
                         Append(versioned_bucket_names, loc.bucket)
                  /\ test_function_returns("created")
                  /\ UNCHANGED error_count
             ELSE /\ test_function_raises("error")
                  /\ UNCHANGED <<buckets, versioned_bucket_names, server>>
    /\ UNCHANGED <<halt_event, cfg, limits, bucket_accounting,
                   unversioned_bucket_names, bucket_name_manager,
                   max_key_value, key_verification, loc, source_pos>>

-----------------------------------------------------------------------------
(* delete-bucket *)

\* a list of names that keeps the name of a deleted bucket
NamesKept(names, name) == names
\* the list without the first occurrence of the name (try: index / del)
WithoutName(names, name) ==
    IF IndexOf(names, name) = 0 THEN names
    ELSE DelAt(names, IndexOf(names, name))

\* _delete_bucket up to the listing of _clear_versioned_bucket or
\* _clear_unversioned_bucket
DeleteBucketBegin ==
    /\ pc = "delete-bucket"
    /\ LET eligible_bucket_names == DOMAIN buckets \ {DefaultBucket} IN
       IF eligible_bucket_names = {}
       THEN /\ test_function_returns("ignored")
            /\ UNCHANGED <<customer_vars, loc, server, used>>
       ELSE \E bucket_name \in eligible_bucket_names :
            LET bucket == buckets[bucket_name]
                acc1 == mark_end(bucket_accounting, bucket_name)
                acc2 == increment_by(acc1, bucket_name,
                                     "listmatch_request", 1)
            IN
            /\ buckets' = Drop(buckets, {bucket_name})
            /\ bucket_accounting' = acc2
            /\ versioned_bucket_names' =
                   IF bucket.versioning
                   THEN WithoutName(versioned_bucket_names, bucket_name)
                   ELSE versioned_bucket_names
            /\ unversioned_bucket_names' =
                   IF bucket.versioning
                   THEN unversioned_bucket_names
                   ELSE WithoutName(unversioned_bucket_names, bucket_name)
            /\ \E answer \in PlainAnswers :
                  /\ used' = UsedAfter(answer)
                  /\ IF answer = "ok"
                     THEN /\ loc' = [loc EXCEPT
                                 !.bucket = bucket_name,
                                 !.versioning = bucket.versioning,
                                 !.keys =
                                    IF bucket.versioning
                                    THEN get_all_versions(server, bucket_name)
                                    ELSE get_all_keys(server, bucket_name)]
                          /\ server' = Listed(server, bucket_name)
                          /\ pc' = "clear-bucket"
                          /\ UNCHANGED <<error_count, outcome>>
                     ELSE /\ test_function_raises("error")
                          /\ UNCHANGED <<loc, server>>
            /\ UNCHANGED <<bucket_name_manager, max_key_value,
                           key_verification>>
    /\ UNCHANGED <<halt_event, cfg, limits, source_pos>>

\* _clear_versioned_bucket / _clear_unversioned_bucket: one turn of the
\* retry loop of the key at hand, or, after the last key, the end of
\* _delete_bucket with connection.delete_bucket
ClearBucket ==
    /\ pc = "clear-bucket"
    /\ IF loc.keys = <<>>
       THEN /\ bucket_accounting' = increment_by(bucket_accounting,
                                        loc.bucket, "listmatch_success", 1)
            /\ bucket_name_manager' =
                   deleted_bucket_name(bucket_name_manager, loc.bucket)
            /\ \E answer \in PlainAnswers :
                  /\ used' = UsedAfter(answer)
                  /\ IF answer = "ok"
                     THEN /\ server' = DeleteBucket(server, loc.bucket)
                          /\ test_function_returns("deleted")
                          /\ UNCHANGED error_count
                     ELSE /\ test_function_raises("error")
                          /\ UNCHANGED server
            /\ UNCHANGED <<key_verification, loc>>
       ELSE LET key == Head(loc.keys)
                verification_key == <<loc.bucket, key.k, key.v>>
                acc1 == increment_by(bucket_accounting, loc.bucket,
                                     "delete_request", 1)
            IN
            /\ IF ~RetryLoopRuns(halt_event)
               THEN \* the while loop is not entered
                    /\ bucket_accounting' = increment_by(bucket_accounting,
                                           loc.bucket, "delete_success", 1)
                    /\ key_verification' =
                           Drop(key_verification, {verification_key})
                    /\ loc' = [loc EXCEPT !.keys = Tail(@),
                                          !.retry_count = 0, !.calls = 0]
                    /\ UNCHANGED <<pc, error_count, server, outcome, used>>
               ELSE \E answer \in RetryAnswers :
                    /\ used' = UsedAfter(answer)
                    /\ CASE answer = "ok" ->
                            /\ server' =
                                 IF loc.versioning
                                 THEN DeleteVersion(server, loc.bucket,
                                                    key.k, key.v)
                                 ELSE DeleteKey(server, loc.bucket, key.k)
                            /\ bucket_accounting' = increment_by(acc1,
                                           loc.bucket, "delete_success", 1)
                            /\ key_verification' =
                                   Drop(key_verification, {verification_key})
                            /\ loc' = [loc EXCEPT !.keys = Tail(@),
                                                  !.retry_count = 0,
                                                  !.calls = 0]
                            /\ UNCHANGED <<pc, error_count, outcome>>
                         [] answer = "retryable" ->
                            /\ bucket_accounting' = increment_by(acc1,
                                           loc.bucket, "delete_error", 1)
                            /\ loc' = [loc EXCEPT !.calls = @ + 1]
                            /\ IF RetriesExhausted(loc.retry_count,
                                                   _max_delete_retries)
                               THEN test_function_raises("exhausted")
                               ELSE /\ pc' = "clear-bucket-wait"
                                    /\ UNCHANGED <<error_count, outcome>>
                            /\ UNCHANGED <<key_verification, server>>
                         [] OTHER ->
                            /\ bucket_accounting' = acc1
                            /\ loc' = [loc EXCEPT !.calls = @ + 1]
                            /\ test_function_raises("error")
                            /\ UNCHANGED <<key_verification, server>>
            /\ UNCHANGED bucket_name_manager
    /\ UNCHANGED <<halt_event, cfg, limits, buckets, versioned_bucket_names,
                   unversioned_bucket_names, max_key_value, source_pos>>

-----------------------------------------------------------------------------
(* archive-new-key, archive-new-version, archive-overwrite *)

\* "random.randint(0, 99) < self._archive_failure_percent"
ForceErrorRolls ==
    {roll < cfg.archive_failure_percent : roll \in 0..99}

\* a division into parts that rounds the number of parts up, the last part
\* being what is left
part_sizes_rounded_up(size) ==
    LET base_size == cfg.multipart_part_size
        n == (size + base_size - 1) \div base_size
    IN  [i \in 1..n |-> IF i = n THEN size - (n - 1) * base_size
                        ELSE base_size]

\* the part sizes of _archive_multipart
part_sizes_of(size) ==
    LET base_size == cfg.multipart_part_size
        n == size \div base_size
    IN  [i \in 1..n |-> IF i = n THEN base_size + (size % base_size)
                        ELSE base_size]

\* self._multipart_upload_cutoff
multipart_upload_cutoff == 2 * cfg.multipart_part_size

\* a choice of the path that sends a size at the cutoff the multipart way
UsesMultipartAtCutoff(size) == size >= multipart_upload_cutoff

\* _archive takes the multipart path
UsesMultipart(size) == size > multipart_upload_cutoff

\* _archive(bucket, key_name): the size is drawn, and _archive_multipart or
\* _archive_one_file runs up to the test of its first retry loop
Archive(bucket_name, key_name) ==
    \E size \in cfg.min_file_size..cfg.max_file_size :
       IF UsesMultipart(size)
       THEN /\ pc' = "initiate-multipart"
            /\ loc' = [loc EXCEPT !.bucket = bucket_name,
                                  !.key_name = key_name,
                                  !.size = size,
                                  !.part_sizes = part_sizes_of(size),
                                  !.retry_count = 0, !.calls = 0]
       ELSE \E force_error \in ForceErrorRolls :
            /\ pc' = "archive-one-file"
            /\ loc' = [loc EXCEPT !.bucket = bucket_name,
                                  !.key_name = key_name,
                                  !.size = size,
                                  !.force_error = force_error,
                                  !.retry_count = 0, !.calls = 0]

\* _archive_new_key
ArchiveNewKey ==
    /\ pc = "archive-new-key"
    /\ IF DOMAIN buckets = {}
       THEN \* random.choice of an empty list
            /\ test_function_raises("error")
            /\ UNCHANGED <<max_key_value, loc>>
       ELSE /\ \E bucket_name \in DOMAIN buckets :
                  Archive(bucket_name, max_key_value + 1)
            /\ max_key_value' = max_key_value + 1
            /\ UNCHANGED <<error_count, outcome>>
    /\ UNCHANGED <<halt_event, cfg, limits, buckets, bucket_accounting,
                   versioned_bucket_names, unversioned_bucket_names,
                   bucket_name_manager, key_verification, server, source_pos,
                   used>>

\* a ledger that keeps the entry of the key written over
OverwrittenKept(ledger, verification_key) == ledger
\* _archive_overwrite: the ledger without the entry of the key written over
\* (del in a try that passes over KeyError)
Overwritten(ledger, verification_key) == Drop(ledger, {verification_key})

\* _archive_new_version (of a versioned bucket) and _archive_overwrite (of
\* an unversioned one): the listing, the choice of the key, the removal of
\* the entry written over, and _archive
ArchiveExistingKey ==
    /\ pc \in {"archive-new-version", "archive-overwrite"}
    /\ LET names == IF pc = "archive-new-version"
                    THEN versioned_bucket_names
                    ELSE unversioned_bucket_names
       IN
       IF Len(names) = 0
       THEN /\ test_function_returns("ignored")
            /\ UNCHANGED <<customer_vars, loc, server, used>>
       ELSE \E i \in DOMAIN names :
            LET bucket_name == names[i]
                acc1 == increment_by(bucket_accounting, bucket_name,
                                     "listmatch_request", 1)
            IN
            IF bucket_name \notin DOMAIN buckets
            THEN /\ test_function_raises("error")
                 /\ UNCHANGED <<bucket_accounting, max_key_value,
                                key_verification, loc, server, used>>
            ELSE \E answer \in PlainAnswers :
                 /\ used' = UsedAfter(answer)
                 /\ IF answer # "ok"
                    THEN /\ bucket_accounting' = acc1
                         /\ test_function_raises("error")
                         /\ UNCHANGED <<max_key_value, key_verification, loc,
                                        server>>
                    ELSE LET keys == get_all_keys(server, bucket_name) IN
                         /\ bucket_accounting' = increment_by(acc1,
                                bucket_name, "listmatch_success", 1)
                         /\ server' = Listed(server, bucket_name)
                         /\ UNCHANGED <<error_count, outcome>>
                         /\ IF Len(keys) = 0
                            THEN /\ Archive(bucket_name, max_key_value + 1)
                                 /\ max_key_value' = max_key_value + 1
                                 /\ UNCHANGED key_verification
                            ELSE \E j \in DOMAIN keys :
                                 /\ Archive(bucket_name, keys[j].k)
                                 /\ key_verification' =
                                      IF pc = "archive-overwrite"
                                      THEN Overwritten(key_verification,
                                             <<bucket_name, keys[j].k,
                                               keys[j].v>>)
                                      ELSE key_verification
                                 /\ UNCHANGED max_key_value
    /\ UNCHANGED <<halt_event, cfg, limits, buckets, versioned_bucket_names,
                   unversioned_bucket_names, bucket_name_manager, source_pos>>

\* the answers to a call reading a MockInputFile that never raises
UploadAnswersUnforced ==
    {"ok"}
    \cup (IF MayFault THEN {"error"} ELSE {})
    \cup (IF MayRetry THEN {"retryable"} ELSE {})

\* the answers to a call that reads a MockInputFile: with force_error the
\* read of the last bytes raises MockInputFileError, so the call cannot
\* succeed
UploadAnswers ==
    (IF loc.force_error THEN {"read_fault"} ELSE {"ok"})
    \cup (IF MayFault THEN {"error"} ELSE {})
    \cup (IF MayRetry THEN {"retryable"} ELSE {})

\* how many bytes of a MockInputFile of the given size a call has read
BytesRead(answer, size) ==
    IF answer = "ok" THEN {size}
    ELSE IF answer = "read_fault" \/ loc.force_error THEN 0..(size - 1)
    ELSE 0..size

\* a digest taken from the start of the data source, whatever was read
md5_of_source_start(pos, size) == Md5(SourceData(0, size))

\* MockInputFile.md5_digest of a file read to its end, the data source
\* having been at pos when the file was read
md5_digest(pos, size) == Md5(SourceData(pos, size))

\* _archive_one_file: one turn of the retry loop
ArchiveOneFile ==
    /\ pc = "archive-one-file"
    /\ IF ~RetryLoopRuns(halt_event)
       THEN /\ test_function_returns("halt")
            /\ UNCHANGED <<error_count, bucket_accounting, key_verification,
                           loc, server, source_pos, used>>
       ELSE LET acc1 == increment_by(bucket_accounting, loc.bucket,
                                     "archive_request", 1)
            IN
            \E answer \in UploadAnswers :
            \E n \in BytesRead(answer, loc.size) :
            /\ used' = UsedAfter(answer)
            /\ source_pos' = (source_pos + n) % SourceLen
            /\ loc' = [loc EXCEPT !.calls = @ + 1,
                                  !.version = IF answer = "ok"
                                              THEN server.next_id ELSE @]
            /\ CASE answer = "ok" ->
                    LET verification_key ==
                            <<loc.bucket, loc.key_name, server.next_id>>
                    IN
                    /\ server' = [StoreObject(server, loc.bucket,
                                      loc.key_name, server.next_id,
                                      SourceData(source_pos, loc.size))
                                  EXCEPT !.next_id = @ + 1]
                    /\ bucket_accounting' =
                           increment_by(
                               increment_by(acc1, loc.bucket,
                                            "archive_success", 1),
                               loc.bucket, "success_bytes_in", loc.size)
                    /\ key_verification' =
                           Put(key_verification, verification_key,
                               <<loc.size, md5_digest(source_pos, loc.size)>>)
                    /\ test_function_returns("success")
                    /\ UNCHANGED error_count
                 [] answer = "read_fault" ->
                    /\ bucket_accounting' = increment_by(acc1, loc.bucket,
                                                "archive_error", 1)
                    /\ test_function_returns("fault")
                    /\ UNCHANGED <<error_count, key_verification, server>>
                 [] answer = "retryable" ->
                    /\ bucket_accounting' = increment_by(acc1, loc.bucket,
                                                "archive_error", 1)
                    /\ IF RetriesExhausted(loc.retry_count,
                                           _max_archive_retries)
                       THEN test_function_raises("exhausted")
                       ELSE /\ pc' = "archive-one-file-wait"
                            /\ UNCHANGED <<error_count, outcome>>
                    /\ UNCHANGED <<key_verification, server>>
                 [] OTHER ->
                    /\ bucket_accounting' = acc1
                    /\ test_function_raises("error")
                    /\ UNCHANGED <<key_verification, server>>
    /\ UNCHANGED <<halt_event, cfg, limits, buckets, versioned_bucket_names,
                   unversioned_bucket_names, bucket_name_manager,
                   max_key_value>>

\* the value of halt_event.is_set() right after a collaborator call: the
\* event may have been set while the call was in flight
HaltAfterCall == {halt_event, TRUE}

\* _archive_multipart: one turn of the retry loop of
\* initiate_multipart_upload, and "if self._halt_event.is_set(): return"
InitiateMultipart ==
    /\ pc = "initiate-multipart"
    /\ IF ~RetryLoopRuns(halt_event)
       THEN /\ test_function_returns("halt")
            /\ UNCHANGED <<halt_event, error_count, bucket_accounting, loc,
                           server, used>>
       ELSE LET acc1 == increment_by(bucket_accounting, loc.bucket,
                                     "archive_request", 1)
            IN
            \E answer \in RetryAnswers :
            /\ used' = UsedAfter(answer)
            /\ CASE answer = "ok" ->
                    /\ bucket_accounting' = acc1
                    /\ server' = [server EXCEPT !.next_id = @ + 1]
                    /\ \E halted \in HaltAfterCall :
                       /\ halt_event' = halted
                       /\ IF halted
                          THEN /\ test_function_returns("halt")
                               /\ loc' = [loc EXCEPT
                                            !.upload_id = server.next_id]
                          ELSE \E force_error \in ForceErrorRolls :
                               /\ pc' = "upload-part"
                               /\ loc' = [loc EXCEPT
                                            !.upload_id = server.next_id,
                                            !.part_num = 1,
                                            !.force_error = force_error,
                                            !.retry_count = 0,
                                            !.calls = 0]
                               /\ UNCHANGED outcome
                    /\ UNCHANGED error_count
                 [] answer = "retryable" ->
                    /\ bucket_accounting' = increment_by(acc1, loc.bucket,
                                                "archive_error", 1)
                    /\ loc' = [loc EXCEPT !.calls = @ + 1]
                    /\ IF RetriesExhausted(loc.retry_count,
                                           _max_delete_retries)
                       THEN test_function_raises("exhausted")
                       ELSE /\ pc' = "initiate-multipart-wait"
                            /\ UNCHANGED <<error_count, outcome>>
                    /\ UNCHANGED <<halt_event, server>>
                 [] OTHER ->
                    /\ bucket_accounting' = acc1
                    /\ loc' = [loc EXCEPT !.calls = @ + 1]
                    /\ test_function_raises("error")
                    /\ UNCHANGED <<halt_event, server>>
    /\ UNCHANGED <<cfg, limits, buckets, versioned_bucket_names,
                   unversioned_bucket_names, bucket_name_manager,
                   max_key_value, key_verification, source_pos>>

\* a part whose read fault only leaves the retry loop of the part
BreakAfterFault ==
    /\ pc' = "complete-upload"
    /\ UNCHANGED outcome

\* "except MockInputFileError: ... return" in the loop of a part
ReturnAfterFault == test_function_returns("fault")

\* _archive_multipart: one turn of the retry loop of one part, and
\* "if self._halt_event.is_set(): return"
UploadPart ==
    /\ pc = "upload-part"
    /\ IF ~RetryLoopRuns(halt_event)
       THEN /\ test_function_returns("halt")
            /\ UNCHANGED <<halt_event, error_count, bucket_accounting, loc,
                           source_pos, used>>
       ELSE LET part_size == loc.part_sizes[loc.part_num] IN
            \E answer \in UploadAnswers :
            \E n \in BytesRead(answer, part_size) :
            /\ used' = UsedAfter(answer)
            /\ source_pos' = (source_pos + n) % SourceLen
            /\ CASE answer = "ok" ->
                    /\ \E halted \in HaltAfterCall :
                       LET sent == [loc EXCEPT
                                      !.calls = @ + 1,
                                      !.data = @ \o SourceData(source_pos,
                                                               part_size)]
                       IN
                       /\ halt_event' = halted
                       /\ IF halted
                          THEN /\ test_function_returns("halt")
                               /\ loc' = sent
                          ELSE IF loc.part_num < Len(loc.part_sizes)
                          THEN \E force_error \in ForceErrorRolls :
                               /\ pc' = "upload-part"
                               /\ loc' = [sent EXCEPT
                                            !.part_num = @ + 1,
                                            !.force_error = force_error,
                                            !.retry_count = 0,
                                            !.calls = 0]
                               /\ UNCHANGED outcome
                          ELSE /\ pc' = "complete-upload"
                               /\ loc' = [sent EXCEPT !.retry_count = 0,
                                                      !.calls = 0]
                               /\ UNCHANGED outcome
                    /\ UNCHANGED <<error_count, bucket_accounting>>
                 [] answer = "read_fault" ->
                    /\ bucket_accounting' = increment_by(bucket_accounting,
                                               loc.bucket, "archive_error", 1)
                    /\ loc' = [loc EXCEPT !.calls = @ + 1]
                    /\ ReturnAfterFault
                    /\ UNCHANGED <<halt_event, error_count>>
                 [] answer = "retryable" ->
                    /\ bucket_accounting' = increment_by(bucket_accounting,
                                               loc.bucket, "archive_error", 1)
                    /\ loc' = [loc EXCEPT !.calls = @ + 1]
                    /\ IF RetriesExhausted(loc.retry_count,
                                           _max_delete_retries)
                       THEN test_function_raises("exhausted")
                       ELSE /\ pc' = "upload-part-wait"
                            /\ UNCHANGED <<error_count, outcome>>
                    /\ UNCHANGED halt_event
                 [] OTHER ->
                    /\ loc' = [loc EXCEPT !.calls = @ + 1]
                    /\ test_function_raises("error")
                    /\ UNCHANGED <<halt_event, bucket_accounting>>
    /\ UNCHANGED <<cfg, limits, buckets, versioned_bucket_names,
                   unversioned_bucket_names, bucket_name_manager,
                   max_key_value, key_verification, server>>

\* _archive_multipart: one turn of the retry loop of complete_upload,
\* "if self._halt_event.is_set(): return", and the bookkeeping of success
CompleteUpload ==
    /\ pc = "complete-upload"
    /\ IF ~RetryLoopRuns(halt_event)
       THEN /\ test_function_returns("halt")
            /\ UNCHANGED <<halt_event, error_count, bucket_accounting,
                           key_verification, loc, server, used>>
       ELSE \E answer \in RetryAnswers :
            /\ used' = UsedAfter(answer)
            /\ loc' = [loc EXCEPT !.calls = @ + 1]
            /\ CASE answer = "ok" ->
                    /\ server' = StoreObject(server, loc.bucket, loc.key_name,
                                             loc.upload_id, loc.data)
                    /\ \E halted \in HaltAfterCall :
                       /\ halt_event' = halted
                       /\ IF halted
                          THEN /\ test_function_returns("halt")
                               /\ UNCHANGED <<bucket_accounting,
                                              key_verification>>
                          ELSE /\ bucket_accounting' =
                                    increment_by(bucket_accounting,
                                        loc.bucket, "archive_success", 1)
                               /\ key_verification' =
                                    Put(key_verification,
                                        <<loc.bucket, loc.key_name,
                                          loc.upload_id>>,
                                        <<loc.size, None>>)
                               /\ test_function_returns("success")
                    /\ UNCHANGED error_count
                 [] answer = "retryable" ->
                    /\ bucket_accounting' = increment_by(bucket_accounting,
                                               loc.bucket, "archive_error", 1)
                    /\ IF RetriesExhausted(loc.retry_count,
                                           _max_delete_retries)
                       THEN test_function_raises("exhausted")
                       ELSE /\ pc' = "complete-upload-wait"
                            /\ UNCHANGED <<error_count, outcome>>
                    /\ UNCHANGED <<halt_event, key_verification, server>>
                 [] OTHER ->
                    /\ test_function_raises("error")
                    /\ UNCHANGED <<halt_event, bucket_accounting,
                                   key_verification, server>>
    /\ UNCHANGED <<cfg, limits, buckets, versioned_bucket_names,
                   unversioned_bucket_names, bucket_name_manager,
                   max_key_value, source_pos>>

-----------------------------------------------------------------------------
(* retrieve-latest, retrieve-version, delete-key, delete-version *)

\* a check that compares the digests whatever the expected digest is
VerifyDigestAlways(ledger, verification_key, data_size, md5_digest_seen) ==
    IF verification_key \notin DOMAIN ledger
    THEN 1
    ELSE (IF data_size # ledger[verification_key][1] THEN 1 ELSE 0)
         + (IF md5_digest_seen # ledger[verification_key][2] THEN 1 ELSE 0)

\* _verify_key and _verify_key_final: the errors counted for an object of
\* the given size and digest under verification_key
VerifyErrors(ledger, verification_key, data_size, md5_digest_seen) ==
    IF verification_key \notin DOMAIN ledger
    THEN 1
    ELSE LET expected_data_size == ledger[verification_key][1]
             expected_md5_digest == ledger[verification_key][2]
         IN  (IF data_size # expected_data_size THEN 1 ELSE 0)
             + (IF expected_md5_digest # None
                   /\ md5_digest_seen # expected_md5_digest
                THEN 1 ELSE 0)

\* every listed version taken to be one of a key with multiple versions
keys_with_any_version(keys) == keys

\* _delete_version: the versions of the keys that have more than one
\* version listed
keys_with_multiple_versions(keys) ==
    SelectSeq(keys, LAMBDA key :
        Cardinality({i \in DOMAIN keys : keys[i].k = key.k}) > 1)

\* the four handlers that begin by choosing a key from a listing: the list
\* of bucket names they draw from, the listing and the keys eligible
NamesFor(handler) ==
    IF handler \in {"retrieve-latest", "delete-key"}
    THEN unversioned_bucket_names ELSE versioned_bucket_names
ListingFor(handler, bucket_name) ==
    IF handler \in {"retrieve-latest", "delete-key"}
    THEN get_all_keys(server, bucket_name)
    ELSE get_all_versions(server, bucket_name)
EligibleFor(handler, keys) ==
    IF handler = "delete-version" THEN keys_with_multiple_versions(keys)
    ELSE keys
StepAfterChoice(handler) ==
    CASE handler \in {"retrieve-latest", "retrieve-version"} -> "retrieve"
      [] handler = "delete-key" -> "delete-key-loop"
      [] handler = "delete-version" -> "delete-version-loop"

\* _retrieve_latest, _retrieve_version, _delete_key, _delete_version up to
\* the choice of the key
ChooseKey ==
    /\ pc \in {"retrieve-latest", "retrieve-version", "delete-key",
               "delete-version"}
    /\ LET names == NamesFor(pc) IN
       IF Len(names) = 0
       THEN /\ test_function_returns("ignored")
            /\ UNCHANGED <<error_count, bucket_accounting, loc, server,
                           used>>
       ELSE \E i \in DOMAIN names :
            LET bucket_name == names[i]
                acc1 == increment_by(bucket_accounting, bucket_name,
                                     "listmatch_request", 1)
            IN
            IF bucket_name \notin DOMAIN buckets
            THEN /\ test_function_raises("error")
                 /\ UNCHANGED <<bucket_accounting, loc, server, used>>
            ELSE \E answer \in PlainAnswers :
                 /\ used' = UsedAfter(answer)
                 /\ IF answer # "ok"
                    THEN /\ bucket_accounting' = acc1
                         /\ test_function_raises("error")
                         /\ UNCHANGED <<loc, server>>
                    ELSE LET keys == ListingFor(pc, bucket_name)
                             eligible == EligibleFor(pc, keys)
                         IN
                         /\ bucket_accounting' = increment_by(acc1,
                                bucket_name, "listmatch_success", 1)
                         /\ server' = Listed(server, bucket_name)
                         /\ UNCHANGED error_count
                         /\ IF Len(eligible) = 0
                            THEN /\ test_function_returns("skipped")
                                 /\ UNCHANGED loc
                            ELSE \E j \in DOMAIN eligible :
                                 /\ pc' = StepAfterChoice(pc)
                                 /\ loc' = [loc EXCEPT
                                       !.bucket = bucket_name,
                                       !.key_name = eligible[j].k,
                                       !.version = eligible[j].v,
                                       !.data = eligible[j].data,
                                       !.retry_count = 0, !.calls = 0]
                                 /\ UNCHANGED outcome
    /\ UNCHANGED <<halt_event, cfg, limits, buckets, versioned_bucket_names,
                   unversioned_bucket_names, bucket_name_manager,
                   max_key_value, key_verification, source_pos>>

\* the answers of key.get_contents_to_file: "notfound" is the
\* LumberyardHTTPError of status 404, "httperror" one of another status,
\* "retryable" the LumberyardRetryableHTTPError (a LumberyardHTTPError),
\* "error" any other exception, "corrupt" a read that delivers other data
RetrieveAnswers ==
    {"ok"}
    \cup (IF MayFault THEN {"notfound", "httperror", "error", "corrupt"}
          ELSE {})
    \cup (IF MayRetry THEN {"retryable"} ELSE {})

\* a status 404 that is raised again like any other status
NotFoundRaised == test_function_raises("notfound")
\* _retrieve_latest, _retrieve_version: "if instance.status == 404" logs
\* and returns
NotFoundReturns == test_function_returns("notfound") /\ UNCHANGED error_count

\* _retrieve_latest and _retrieve_version from retrieve_request on
Retrieve ==
    /\ pc = "retrieve"
    /\ LET acc1 == increment_by(bucket_accounting, loc.bucket,
                                "retrieve_request", 1)
           verification_key == <<loc.bucket, loc.key_name, loc.version>>
       IN
       \E answer \in RetrieveAnswers :
       /\ used' = UsedAfter(answer)
       /\ loc' = [loc EXCEPT !.calls = @ + 1]
       /\ CASE answer \in {"ok", "corrupt"} ->
               \E written \in DataRead(answer, loc.data) :
               /\ bucket_accounting' =
                      increment_by(
                          increment_by(acc1, loc.bucket,
                                       "retrieve_success", 1),
                          loc.bucket, "success_bytes_out", Len(written))
               /\ server' = Served(server, loc.bucket, Len(written))
               /\ error_count' = error_count
                      + VerifyErrors(key_verification, verification_key,
                                     Len(written), Md5(written))
               /\ test_function_returns("success")
            [] answer = "notfound" ->
               /\ bucket_accounting' = increment_by(acc1, loc.bucket,
                                                    "retrieve_error", 1)
               /\ NotFoundReturns
               /\ UNCHANGED server
            [] answer \in {"httperror", "retryable"} ->
               /\ bucket_accounting' = increment_by(acc1, loc.bucket,
                                                    "retrieve_error", 1)
               /\ test_function_raises(answer)
               /\ UNCHANGED server
            [] OTHER ->
               /\ bucket_accounting' = acc1
               /\ test_function_raises("error")
               /\ UNCHANGED server
    /\ UNCHANGED <<halt_event, cfg, limits, buckets, versioned_bucket_names,
                   unversioned_bucket_names, bucket_name_manager,
                   max_key_value, key_verification, source_pos>>

\* the entries of every key of the bucket
EntriesOfBucket(ledger, bucket_name, key_name) ==
    {entry \in DOMAIN ledger : entry[1] = bucket_name}
\* _delete_key: the entries of every version of the key
EntriesOfKey(ledger, bucket_name, key_name) ==
    {entry \in DOMAIN ledger :
        entry[1] = bucket_name /\ entry[2] = key_name}

\* _delete_key: one turn of the retry loop, and what follows the loop
DeleteKeyLoop ==
    /\ pc = "delete-key-loop"
    /\ LET acc1 == increment_by(bucket_accounting, loc.bucket,
                                "delete_request", 1)
           purged == Drop(key_verification,
                          EntriesOfKey(key_verification, loc.bucket,
                                       loc.key_name))
       IN
       IF ~RetryLoopRuns(halt_event)
       THEN \* the while loop ends without a call
            /\ bucket_accounting' = increment_by(bucket_accounting,
                                        loc.bucket, "delete_success", 1)
            /\ key_verification' = purged
            /\ test_function_returns("halt")
            /\ UNCHANGED <<error_count, loc, server, used>>
       ELSE \E answer \in RetryAnswers :
            /\ used' = UsedAfter(answer)
            /\ loc' = [loc EXCEPT !.calls = @ + 1]
            /\ CASE answer = "ok" ->
                    /\ server' = DeleteKey(server, loc.bucket, loc.key_name)
                    /\ bucket_accounting' = increment_by(acc1, loc.bucket,
                                                "delete_success", 1)
                    /\ key_verification' = purged
                    /\ test_function_returns("success")
                    /\ UNCHANGED error_count
                 [] answer = "retryable" ->
                    /\ bucket_accounting' = increment_by(acc1, loc.bucket,
                                                "delete_error", 1)
                    /\ IF RetriesExhausted(loc.retry_count,
                                           _max_delete_retries)
                       THEN test_function_raises("exhausted")
                       ELSE /\ pc' = "delete-key-wait"
                            /\ UNCHANGED <<error_count, outcome>>
                    /\ UNCHANGED <<key_verification, server>>
                 [] OTHER ->
                    /\ bucket_accounting' = acc1
                    /\ test_function_raises("error")
                    /\ UNCHANGED <<key_verification, server>>
    /\ UNCHANGED <<halt_event, cfg, limits, buckets, versioned_bucket_names,
                   unversioned_bucket_names, bucket_name_manager,
                   max_key_value, source_pos>>

\* _delete_version: one turn of the retry loop
DeleteVersionLoop ==
    /\ pc = "delete-version-loop"
    /\ LET acc1 == increment_by(bucket_accounting, loc.bucket,
                                "delete_request", 1)
           verification_key == <<loc.bucket, loc.key_name, loc.version>>
       IN
       IF ~RetryLoopRuns(halt_event)
       THEN /\ test_function_returns("halt")
            /\ UNCHANGED <<error_count, bucket_accounting, key_verification,
                           loc, server, used>>
       ELSE \E answer \in RetryAnswers :
            /\ used' = UsedAfter(answer)
            /\ loc' = [loc EXCEPT !.calls = @ + 1]
            /\ CASE answer = "ok" ->
                    /\ server' = DeleteVersion(server, loc.bucket,
                                               loc.key_name, loc.version)
                    /\ bucket_accounting' = increment_by(acc1, loc.bucket,
                                                "delete_success", 1)
                    /\ key_verification' =
                           Drop(key_verification, {verification_key})
                    /\ test_function_returns("success")
                    /\ UNCHANGED error_count
                 [] answer = "retryable" ->
                    /\ bucket_accounting' = increment_by(acc1, loc.bucket,
                                                "delete_error", 1)
                    /\ IF RetriesExhausted(loc.retry_count,
                                           _max_delete_retries)
                       THEN test_function_raises("exhausted")
                       ELSE /\ pc' = "delete-version-wait"
                            /\ UNCHANGED <<error_count, outcome>>
                    /\ UNCHANGED <<key_verification, server>>
                 [] OTHER ->
                    /\ bucket_accounting' = acc1
                    /\ test_function_raises("error")
                    /\ UNCHANGED <<key_verification, server>>
    /\ UNCHANGED <<halt_event, cfg, limits, buckets, versioned_bucket_names,
                   unversioned_bucket_names, bucket_name_manager,
                   max_key_value, source_pos>>

-----------------------------------------------------------------------------
(* _verify_after *)

\* _verify_after: get_all_buckets
VerifyAfter ==
    /\ pc = "verify-after"
    /\ \E answer \in PlainAnswers :
          /\ used' = UsedAfter(answer)
          /\ IF answer = "ok"
             THEN /\ pc' = "verify-after-bucket"
                  /\ loc' = [loc EXCEPT
                                !.bucket_list = get_all_buckets(server)]
                  /\ UNCHANGED outcome
             ELSE MainLoopRaises /\ UNCHANGED loc
    /\ UNCHANGED <<halt_event, cfg, limits, customer_vars, server,
                   source_pos>>

\* what bucket.get_all_keys / get_all_versions may deliver to _verify_after:
\* the listing, or, when the service is at fault, a listing that lacks
\* some of the objects
ListingAnswers ==
    PlainAnswers \cup (IF MayFault THEN {"short"} ELSE {})
ListingRead(answer, listing) ==
    LET listed == {listing[i] : i \in DOMAIN listing} IN
    IF answer = "short"
    THEN {ListOf(some) : some \in (SUBSET listed) \ {listed}}
    ELSE {listing}

\* a sweep that counts one error when any entry is left
unreachable_keys_once(ledger) == IF DOMAIN ledger = {} THEN 0 ELSE 1
\* _verify_after: the errors counted for the entries left in the ledger
unreachable_keys(ledger) == Cardinality(DOMAIN ledger)

\* _verify_after: one bucket up to its listing; after the last bucket,
\* the count of the unreachable keys
VerifyAfterBucket ==
    /\ pc = "verify-after-bucket"
    /\ IF loc.bucket_list = <<>>
       THEN /\ error_count' =
                   error_count + unreachable_keys(key_verification)
            /\ pc' = AfterVerifyAfter
            /\ UNCHANGED <<bucket_accounting, loc, server, outcome, used>>
       ELSE LET b == Head(loc.bucket_list) IN
            /\ UNCHANGED error_count
            /\ IF b \notin DOMAIN bucket_accounting
               THEN /\ MainLoopRaises
                    /\ UNCHANGED <<bucket_accounting, loc, server, used>>
               ELSE
               /\ bucket_accounting' = increment_by(bucket_accounting, b,
                                           "listmatch_request", 1)
               /\ \E answer \in ListingAnswers :
                     /\ used' = UsedAfter(answer)
                     /\ IF answer = "error"
                        THEN MainLoopRaises /\ UNCHANGED <<loc, server>>
                        ELSE \E keys \in ListingRead(answer,
                                                     ListingOf(server, b)) :
                             /\ pc' = "verify-after-key"
                             /\ loc' = [loc EXCEPT
                                           !.bucket = b,
                                           !.versioning = server.buckets[b],
                                           !.keys = keys]
                             /\ server' = Listed(server, b)
                             /\ UNCHANGED outcome
    /\ UNCHANGED <<halt_event, cfg, limits, buckets, versioned_bucket_names,
                   unversioned_bucket_names, bucket_name_manager,
                   max_key_value, key_verification, source_pos>>

\* the listmatch_success increments that end one bucket of _verify_after:
\* line 254 in the versioned branch, and line 264 after the if statement
ListmatchSuccessAfter(versioning) == IF versioning THEN 2 ELSE 1

\* _verify_after: one key of the listing is read and checked with
\* _verify_key_final
VerifyAfterKey ==
    /\ pc = "verify-after-key"
    /\ IF loc.keys = <<>>
       THEN /\ bucket_accounting' =
                   increment_by(bucket_accounting, loc.bucket,
                                "listmatch_success",
                                ListmatchSuccessAfter(loc.versioning))
            /\ loc' = [loc EXCEPT !.bucket_list = Tail(@)]
            /\ pc' = "verify-after-bucket"
            /\ UNCHANGED <<error_count, key_verification, server, outcome,
                           used>>
       ELSE LET key == Head(loc.keys)
                verification_key == <<loc.bucket, key.k, key.v>>
            IN
            /\ \E answer \in ReadAnswers :
                  /\ used' = UsedAfter(answer)
                  /\ IF answer = "error"
                     THEN /\ MainLoopRaises
                          /\ UNCHANGED <<error_count, key_verification, loc,
                                         server>>
                     ELSE \E result \in DataRead(answer, key.data) :
                          /\ server' = Served(server, loc.bucket,
                                              Len(result))
                          /\ error_count' = error_count
                                + VerifyErrors(key_verification,
                                      verification_key, Len(result),
                                      Md5(result))
                          /\ key_verification' =
                                 Drop(key_verification, {verification_key})
                          /\ loc' = [loc EXCEPT !.keys = Tail(@)]
                          /\ pc' = "verify-after-key"
                          /\ UNCHANGED outcome
            /\ UNCHANGED bucket_accounting
    /\ UNCHANGED <<halt_event, cfg, limits, buckets, versioned_bucket_names,
                   unversioned_bucket_names, bucket_name_manager,
                   max_key_value, source_pos>>

-----------------------------------------------------------------------------
(* _audit_after *)

\* result["operational_stats"][0] as the service reports it: what it has
\* counted, or, when it is at fault, that with one field miscounted
ServerAudits(answer, stats) ==
    IF answer = "misreport"
    THEN {[stats EXCEPT ![f] = @ + 1] : f \in AuditFields}
    ELSE {stats}

\* the answers of bucket.get_space_used: "failed" has success false,
\* "many" more than one interval of statistics, "none" no interval
AuditAnswers ==
    PlainAnswers \cup {"many", "none"}
    \cup (IF MayFault THEN {"failed", "misreport"} ELSE {})

\* our_audit["archive_success"]: our_audit is a CollectionOpsAccounting, a
\* class that defines increment_by and mark_end and no __getitem__, so the
\* subscription raises TypeError
AccountingSubscriptable == FALSE

\* the fields whose local value differs from the server's
AuditMismatches(our_audit, server_audit) ==
    Cardinality({f \in AuditFields : our_audit[f] # server_audit[f]})

\* _audit_after: get_all_buckets
AuditAfter ==
    /\ pc = "audit-after"
    /\ \E answer \in PlainAnswers :
          /\ used' = UsedAfter(answer)
          /\ IF answer = "ok"
             THEN /\ pc' = "audit-bucket"
                  /\ loc' = [loc EXCEPT
                                !.bucket_list = get_all_buckets(server),
                                !.audit_error_count = 0]
                  /\ UNCHANGED outcome
             ELSE MainLoopRaises /\ UNCHANGED loc
    /\ UNCHANGED <<halt_event, cfg, limits, customer_vars, server,
                   source_pos>>

\* _audit_after: get_space_used of one bucket and the comparison; after
\* the last bucket the errors found are added to the error count
AuditBucket ==
    /\ pc = "audit-bucket"
    /\ IF loc.bucket_list = <<>>
       THEN /\ error_count' = error_count + loc.audit_error_count
            /\ pc' = "close"
            /\ UNCHANGED <<loc, outcome, used>>
       ELSE LET b == Head(loc.bucket_list)
                counted(answer, n) ==
                    [loc EXCEPT !.bucket_list = Tail(@),
                                !.result = answer,
                                !.audit_error_count = @ + n]
            IN
            /\ UNCHANGED error_count
            /\ \E answer \in AuditAnswers :
                  /\ used' = UsedAfter(answer)
                  /\ CASE answer = "error" ->
                          MainLoopRaises /\ UNCHANGED loc
                       [] answer \in {"failed", "many"} ->
                          /\ loc' = counted(answer, 1)
                          /\ UNCHANGED <<pc, outcome>>
                       [] OTHER ->
                          IF \/ b \notin DOMAIN bucket_accounting
                             \/ ~AccountingSubscriptable
                          THEN /\ MainLoopRaises
                               /\ loc' = [loc EXCEPT !.result = answer]
                          ELSE \E server_audit \in
                                  IF answer = "none" THEN {NoServerData}
                                  ELSE ServerAudits(answer,
                                                    server.stats[b]) :
                               /\ loc' = counted(answer,
                                            AuditMismatches(
                                               bucket_accounting[b],
                                               server_audit))
                               /\ UNCHANGED <<pc, outcome>>
    /\ UNCHANGED <<halt_event, cfg, limits, buckets, bucket_accounting,
                   versioned_bucket_names, unversioned_bucket_names,
                   bucket_name_manager, max_key_value, key_verification,
                   server, source_pos>>

-----------------------------------------------------------------------------
(* The specification *)

Startup ==
    \/ Connect
    \/ InitialInventory
    \/ InitialInventoryBucket
    \/ VerifyBefore
    \/ VerifyBeforeBucket
    \/ VerifyBeforeKey
    \/ LoadFrequencyTable

Handlers ==
    \/ CreateUnversionedBucket
    \/ ConfigureVersioningCall
    \/ DeleteBucketBegin
    \/ ClearBucket
    \/ ArchiveNewKey
    \/ ArchiveExistingKey
    \/ ArchiveOneFile
    \/ InitiateMultipart
    \/ UploadPart
    \/ CompleteUpload
    \/ ChooseKey
    \/ Retrieve
    \/ DeleteKeyLoop
    \/ DeleteVersionLoop
    \/ RetryWait

Shutdown ==
    \/ VerifyAfter
    \/ VerifyAfterBucket
    \/ VerifyAfterKey
    \/ AuditAfter
    \/ AuditBucket
    \/ Close

\* the steps of the customer
CustomerStep == Startup \/ MainLoop \/ Delay \/ Handlers \/ Shutdown

Next == CustomerStep \/ SetHalt

Spec == Init /\ [][Next]_vars

\* a run with every phase of _main_loop in which the customer is scheduled:
\* every collaborator call returns or raises and every wait returns, so a
\* step the customer can take is taken
InitHalt == InitWith({TestScript(EvenDistribution, TRUE, 50)},
                     {EmptyService, UsedService}, MaxActionsHalt, MaxFaults)

SpecHalt == InitHalt /\ [][Next]_vars /\ WF_vars(CustomerStep)

\* a run of one action that has a retry loop, half of the archives forced
\* to fail, against a service that may fail often enough to exhaust the
\* retries of one loop
RetryDistribution ==
    ("archive-new-key" :> 25) @@ ("delete-key" :> 25)
    @@ ("delete-version" :> 25) @@ ("delete-bucket" :> 25)

InitRetry == InitWith({TestScript(RetryDistribution, FALSE, 50)},
                      {UsedService}, MaxActionsHalt,
                      Max(_max_archive_retries, _max_delete_retries) + 1)

\* the steps such a run can take
NextRetry ==
    \/ Connect
    \/ InitialInventory
    \/ InitialInventoryBucket
    \/ LoadFrequencyTable
    \/ Delay
    \/ MainLoop
    \/ DeleteBucketBegin
    \/ ClearBucket
    \/ ArchiveNewKey
    \/ ArchiveOneFile
    \/ InitiateMultipart
    \/ UploadPart
    \/ CompleteUpload
    \/ ChooseKey
    \/ DeleteKeyLoop
    \/ DeleteVersionLoop
    \/ RetryWait
    \/ Close
    \/ SetHalt

SpecRetry == InitRetry /\ [][NextRetry]_vars

\* a run that archives new keys only, against a service that never fails,
\* for each multipart-part-size up to MaxPartSize, the sizes drawn going
\* from 1 to past three parts
PartsDistribution == "archive-new-key" :> 100

PartsScript(part_size) ==
    [TestScript(PartsDistribution, FALSE, 0) EXCEPT
        !.multipart_part_size = part_size,
        !.min_file_size = 1,
        !.max_file_size = 3 * part_size + 1]

InitParts == InitWith({PartsScript(part_size) : part_size \in 1..MaxPartSize},
                      {EmptyService}, MaxActionsHalt, 0)

\* the steps such a run can take
NextParts ==
    \/ Connect
    \/ InitialInventory
    \/ InitialInventoryBucket
    \/ LoadFrequencyTable
    \/ Delay
    \/ MainLoop
    \/ ArchiveNewKey
    \/ ArchiveOneFile
    \/ InitiateMultipart
    \/ UploadPart
    \/ CompleteUpload
    \/ Close
    \/ SetHalt

SpecParts == InitParts /\ [][NextParts]_vars

\* a run that creates and deletes buckets, max-bucket-count being 6,
\* against a service that never fails and holds the reserved collections
\* 1, 3 and 5, or the reserved collection 7
NamesDistribution == ("create-bucket" :> 50) @@ ("delete-bucket" :> 50)

NamesScript ==
    [TestScript(NamesDistribution, FALSE, 0) EXCEPT !.max_bucket_count = 6]

SeededNames == {1, 3, 5}

InitNames == InitWith({NamesScript}, {ServiceWith(SeededNames),
                                      ServiceWith({7})},
                      MaxActionsNames, 0)

\* the steps such a run can take
NextNames ==
    \/ Connect
    \/ InitialInventory
    \/ InitialInventoryBucket
    \/ LoadFrequencyTable
    \/ Delay
    \/ MainLoop
    \/ CreateUnversionedBucket
    \/ DeleteBucketBegin
    \/ ClearBucket
    \/ Close
    \/ SetHalt

SpecNames == InitNames /\ [][NextNames]_vars

\* a run that creates and deletes buckets, max-bucket-count being 3,
\* against a service that never fails and holds with the default
\* collection the reserved collections 1 and 2, or 3, or 1, 2 and 3
CeilingScript ==
    [TestScript(NamesDistribution, FALSE, 0) EXCEPT !.max_bucket_count = 3]

InitCeiling == InitWith({CeilingScript}, {ServiceWith({1, 2}),
                                          ServiceWith({3}),
                                          ServiceWith({1, 2, 3})},
                        MaxActionsNames, 0)

SpecCeiling == InitCeiling /\ [][NextNames]_vars

\* a run of every test script that gives three of the actions a weight
\* that is a multiple of 25, the sizes drawn being one size not above the
\* multipart cutoff, against a service that never fails and holds the
\* default collection alone or with the reserved collection 1
TableActions == <<"archive-new-key", "archive-overwrite", "delete-key">>

TableScripts ==
    {[TestScript(distribution, FALSE, 0) EXCEPT
         !.min_file_size = size, !.max_file_size = size] :
       distribution \in [Range(TableActions) -> {0, 25, 50, 75, 100}],
       size \in 1..(2 * PartSize)}

InitTable == InitWith(TableScripts, {EmptyService, ServiceWith({1})},
                      MaxActionsTable, 0)

\* the steps such a run can take
NextTable ==
    \/ Connect
    \/ InitialInventory
    \/ InitialInventoryBucket
    \/ LoadFrequencyTable
    \/ Delay
    \/ MainLoop
    \/ ArchiveNewKey
    \/ ArchiveExistingKey
    \/ ArchiveOneFile
    \/ ChooseKey
    \/ DeleteKeyLoop
    \/ Close
    \/ SetHalt

SpecTable == InitTable /\ [][NextTable]_vars

-----------------------------------------------------------------------------
(* Properties of the main loop *)

\* the positions inside a test function
HandlerPositions ==
    ActionNames \cup
    {"configure-versioning", "clear-bucket", "archive-one-file",
     "initiate-multipart", "upload-part", "complete-upload", "retrieve",
     "delete-key-loop", "delete-version-loop"} \cup DOMAIN LoopOfWait

\* the positions at which _main_loop has ended
Ended == {"done", "raised"}

\* C1: when a test function raises, the exception stays inside the loop of
\* _main_loop (no exception has left _main_loop), the error count is exactly
\* one more than when the test function was started, and the loop goes on:
\* the customer is in _delay, _delay returns, and the loop, if the halt
\* event is not set, starts another test function
C1_HandlerErrorCounted ==
    /\ outcome.result = "raised" =>
           /\ pc = "delay"
           /\ error_count = outcome.errors + 1
           /\ ENABLED Delay
    /\ (pc = "loop" /\ ~halt_event /\ used.actions < limits.actions) =>
           ENABLED (MainLoop /\ pc' \in ActionNames)

\* a test function has raised and the exception was caught, with the
\* halt event not set
C1_Witness ==
    /\ outcome.result = "raised"
    /\ outcome.action \in ActionNames
    /\ error_count = outcome.errors + 1
    /\ ~halt_event

\* the positions of _main_loop before the first _delay
StartupPositions ==
    {"connect", "inventory", "inventory-bucket", "verify-before",
     "verify-before-bucket", "verify-before-key", "load-frequency-table"}

\* the positions inside _verify_after and _audit_after
ShutdownPositions ==
    {"verify-after", "verify-after-bucket", "verify-after-key",
     "audit-after", "audit-bucket"}

\* C2: once the customer is connected and has started, _main_loop never
\* raises: an exception leaves _main_loop only from the startup, never from
\* the loop of the actions, from _verify_after or from _audit_after
C2_NoFailureEscapes ==
    pc = "raised" => outcome.action \in StartupPositions

\* C3: the test functions run one after the other and none starts after
\* the halt event is set: a test function is started only by the loop, at
\* its test, with the halt event not set and no test function in progress;
\* the test of the loop is reached only from _delay; and _delay is reached
\* only when a test function has returned or raised (or from the startup)
C3_SequentialUntilHalt ==
    [][/\ (pc' \in HandlerPositions /\ pc \notin HandlerPositions) =>
             /\ pc = "loop"
             /\ pc' \in ActionNames
             /\ ~halt_event
             /\ outcome.result = "none"
       /\ (pc' = "loop" /\ pc # "loop") => pc = "delay"
       /\ (pc' = "delay" /\ pc # "delay") =>
             \/ pc \in HandlerPositions
                /\ outcome'.result \in {"returned", "raised"}
             \/ pc = "load-frequency-table"
       /\ (halt_event /\ pc \notin HandlerPositions) =>
             pc' \notin HandlerPositions]_vars

\* the halt event was set while the first test function was in progress:
\* the loop has ended without starting the second one
C3_Witness ==
    /\ halt_event
    /\ pc \in ShutdownPositions \cup {"close"}
    /\ used.actions = 1
    /\ used.actions < limits.actions

-----------------------------------------------------------------------------
(* Properties of the retry loops *)

\* the positions at the head of a retry loop (clear-bucket is at the head
\* of one while a key of the listing is left)
RetryLoopPositions == {LoopOfWait[w] : w \in DOMAIN LoopOfWait}

InRetryLoop ==
    /\ pc \in RetryLoopPositions
    /\ pc = "clear-bucket" => loc.keys # <<>>

\* C4: once the halt event is set _main_loop ends (it returns or raises),
\* in _delay and in every backoff wait included, and a retry loop makes no
\* collaborator call once the halt event is set
C4_ShutdownTerminates ==
    /\ halt_event ~> pc \in Ended
    /\ [][(halt_event /\ InRetryLoop) => used'.calls = used.calls]_vars

\* the halt event is set while the customer is in a backoff wait
C4_WitnessInWait ==
    /\ halt_event
    /\ pc \in DOMAIN LoopOfWait

\* the test function that has ended ran one retry loop only: a single-shot
\* archive, delete-key or delete-version
EndedSingleLoop ==
    /\ outcome.result \in {"returned", "raised"}
    /\ \/ outcome.action = "archive-new-key" /\ ~UsesMultipart(loc.size)
       \/ outcome.action \in {"delete-key", "delete-version"}

\* C5: the ceiling of the retries is 10.  An operation that succeeds after
\* the service has answered k times with the retryable error was called
\* k + 1 times and ends with the retry count k, k <= 10; an operation whose
\* retries are exhausted was called 11 times, with the retry count 10, and
\* the 11th retryable error is raised to the main loop
C5_RetryCeiling ==
    /\ (EndedSingleLoop /\ outcome.detail = "success") =>
           /\ loc.retry_count = used.faults - outcome.faults
           /\ loc.calls = loc.retry_count + 1
           /\ loc.retry_count <= 10
           /\ outcome.result = "returned"
    /\ outcome.detail = "exhausted" =>
           /\ loc.retry_count = 10
           /\ loc.calls = 11
           /\ outcome.result = "raised"
           /\ error_count = outcome.errors + 1
    /\ (EndedSingleLoop /\ outcome.detail = "exhausted") =>
           used.faults - outcome.faults = 11

\* a single-shot archive has succeeded at its 11th call, after 10 retries
C5_WitnessLastRetry ==
    /\ outcome.action = "archive-new-key"
    /\ ~UsesMultipart(loc.size)
    /\ outcome.detail = "success"
    /\ loc.retry_count = 10
    /\ loc.calls = 11
    /\ ~halt_event

\* C6: when the halt event is set during a backoff wait, the retry loop
\* ends at once and the operation is not called again, in each of the seven
\* retry loops: the step after the wait makes no collaborator call and
\* leaves the loop (the handler returns, or, in the clearing of a bucket,
\* goes on to the next key)
C6_HaltEndsRetryLoop ==
    [][(halt_event /\ InRetryLoop /\ loc.retry_count > 0) =>
          /\ used'.calls = used.calls
          /\ server' = server
          /\ IF pc = "clear-bucket"
             THEN pc' = "clear-bucket" /\ loc'.keys = Tail(loc.keys)
             ELSE pc' = "delay" /\ outcome'.result = "returned"]_vars

\* a backoff wait has returned with the halt event set
C6_WitnessHaltedAfterWait ==
    /\ halt_event
    /\ InRetryLoop
    /\ loc.retry_count > 0

\* C7: a retrieve (retrieve-latest, retrieve-version) answered with the
\* retryable error is tried again: it does not fail the action at its
\* first call
C7_RetrieveRetried ==
    (/\ outcome.action \in {"retrieve-latest", "retrieve-version"}
     /\ outcome.result = "raised"
     /\ outcome.detail = "retryable") => loc.calls > 1

-----------------------------------------------------------------------------
(* Properties of the accounting and of the ledger *)

Operations == {"retrieve", "archive", "listmatch", "delete"}

\* the counters of one operation in the accounting of one bucket
Requests(acc, op) ==
    CASE op = "retrieve" -> acc.retrieve_request
      [] op = "archive" -> acc.archive_request
      [] op = "listmatch" -> acc.listmatch_request
      [] op = "delete" -> acc.delete_request
Successes(acc, op) ==
    CASE op = "retrieve" -> acc.retrieve_success
      [] op = "archive" -> acc.archive_success
      [] op = "listmatch" -> acc.listmatch_success
      [] op = "delete" -> acc.delete_success
Errors(acc, op) ==
    CASE op = "retrieve" -> acc.retrieve_error
      [] op = "archive" -> acc.archive_error
      [] op = "listmatch" -> acc.listmatch_error
      [] op = "delete" -> acc.delete_error

\* C8: whenever no action is in progress, every live bucket has, for each
\* operation, as many requests as successes and errors together
C8_RequestsBalanced ==
    pc \in {"delay", "loop"} =>
        \A b \in DOMAIN buckets : \A op \in Operations :
            Requests(bucket_accounting[b], op) =
                Successes(bucket_accounting[b], op)
                + Errors(bucket_accounting[b], op)

\* C9: once mark_end was called on an accounting instance, no counter of
\* that instance changes (a bucket created anew under the name gets a new
\* instance, on which mark_end was not called)
C9_FrozenAfterMarkEnd ==
    [][\A b \in DOMAIN bucket_accounting :
          (/\ bucket_accounting[b].end_marks > 0
           /\ bucket_accounting'[b].end_marks > 0) =>
              bucket_accounting'[b] = bucket_accounting[b]]_vars

\* the objects the service holds under a verification key
StoredAs(srv, verification_key) ==
    {o \in srv.objects : <<o.b, o.k, o.v>> = verification_key}

\* C10: a single-shot archive of size s that succeeds adds to the ledger
\* one entry, under (bucket, key name, version id returned), of the value
\* (s, md5 of the data the service received in the call that succeeded),
\* changes no other entry, and adds 1 to archive_success and s to
\* success_bytes_in of the bucket
C10_SingleShotRecorded ==
    [][(pc = "archive-one-file" /\ outcome'.detail = "success") =>
          LET verification_key == <<loc.bucket, loc.key_name, loc'.version>>
              before == bucket_accounting[loc.bucket]
              after == bucket_accounting'[loc.bucket]
          IN  /\ loc'.version = server.next_id
              /\ verification_key \notin DOMAIN key_verification
              /\ DOMAIN key_verification' =
                     DOMAIN key_verification \cup {verification_key}
              /\ \A entry \in DOMAIN key_verification :
                     key_verification'[entry] = key_verification[entry]
              /\ \E o \in StoredAs(server', verification_key) :
                     /\ StoredAs(server', verification_key) = {o}
                     /\ Len(o.data) = loc.size
                     /\ key_verification'[verification_key] =
                            <<loc.size, Md5(o.data)>>
              /\ after.archive_success = before.archive_success + 1
              /\ after.success_bytes_in = before.success_bytes_in + loc.size
         ]_vars

\* a single-shot archive has succeeded at a retry, the ledger holding
\* other entries
C10_WitnessRecordedAfterRetry ==
    /\ pc = "delay"
    /\ outcome.detail = "success"
    /\ outcome.action \in {"archive-new-key", "archive-new-version",
                            "archive-overwrite"}
    /\ ~UsesMultipart(loc.size)
    /\ loc.retry_count > 0
    /\ <<loc.bucket, loc.key_name, loc.version>> \in DOMAIN key_verification
    /\ Cardinality(DOMAIN key_verification) > 1

\* C11: a multipart archive of total size s that succeeds adds to the
\* ledger the entry (bucket, key name, upload id) with the value
\* (s, no checksum), and adds 1 to archive_success and s to
\* success_bytes_in of the bucket
C11_MultipartRecorded ==
    [][(pc = "complete-upload" /\ outcome'.detail = "success") =>
          LET verification_key == <<loc.bucket, loc.key_name, loc.upload_id>>
              before == bucket_accounting[loc.bucket]
              after == bucket_accounting'[loc.bucket]
          IN  /\ verification_key \in DOMAIN key_verification'
              /\ key_verification'[verification_key] = <<loc.size, None>>
              /\ after.archive_success = before.archive_success + 1
              /\ after.success_bytes_in = before.success_bytes_in + loc.size
         ]_vars

\* the steps that make one archive attempt reading a MockInputFile
UploadPositions == {"archive-one-file", "upload-part"}

\* C12: an archive attempt (single-shot, or one part of a multipart
\* archive) whose MockInputFile raises MockInputFileError is one call that
\* is not tried again: the handler returns to the main loop without an
\* exception, archive_error of the bucket grows by 1 and archive_success by
\* nothing, the ledger, the objects of the service and the error count
\* stay as they were; and a call made with force_error set never stores
\* anything and is never followed by the next part or by complete_upload
C12_ReadFaultRecorded ==
    /\ [][(pc \in UploadPositions /\ outcome'.detail = "fault") =>
             LET before == bucket_accounting[loc.bucket]
                 after == bucket_accounting'[loc.bucket]
             IN  /\ loc.force_error
                 /\ pc' = "delay"
                 /\ outcome'.result = "returned"
                 /\ used'.calls = used.calls + 1
                 /\ after.archive_error = before.archive_error + 1
                 /\ after.archive_success = before.archive_success
                 /\ after.archive_request = before.archive_request
                        + (IF pc = "archive-one-file" THEN 1 ELSE 0)
                 /\ key_verification' = key_verification
                 /\ server'.objects = server.objects
                 /\ error_count' = error_count
         ]_vars
    /\ [][(/\ pc \in UploadPositions
            /\ loc.force_error
            /\ used'.calls = used.calls + 1) =>
             /\ key_verification' = key_verification
             /\ server'.objects = server.objects
             /\ loc'.data = loc.data
             /\ pc' \notin {"upload-part", "complete-upload"}
         ]_vars

\* the second part of a multipart archive has ended with the injected fault
C12_WitnessPartFault ==
    /\ pc = "delay"
    /\ outcome.detail = "fault"
    /\ UsesMultipart(loc.size)
    /\ loc.part_num > 1
    /\ bucket_accounting[loc.bucket].archive_error = 1

\* the three stages of _archive_multipart
MultipartPositions == {"initiate-multipart", "upload-part",
                       "complete-upload"}

\* a stage of a multipart archive fails in this step: its call ends with an
\* archive error that is the injected fault (no fault of the service) or
\* the retryable error that exhausts the retries
StageFailed ==
    /\ pc \in MultipartPositions
    /\ bucket_accounting'[loc.bucket].archive_error =
           bucket_accounting[loc.bucket].archive_error + 1
    /\ \/ used'.faults = used.faults
       \/ loc.retry_count >= _max_delete_retries

\* C13: when a stage of a multipart archive (initiate, a part, complete)
\* ends with the injected fault or with the retries exhausted, the handler
\* ends there: no later part is uploaded and complete_upload is not called,
\* archive_success does not grow, nothing is stored, and the ledger holds no
\* entry for (bucket, key name, upload id) afterwards
C13_MultipartAborted ==
    /\ [][StageFailed =>
             /\ pc' = "delay"
             /\ outcome'.detail \in {"fault", "exhausted"}
             /\ bucket_accounting'[loc.bucket].archive_success =
                    bucket_accounting[loc.bucket].archive_success
             /\ key_verification' = key_verification
             /\ server'.objects = server.objects
         ]_vars
    /\ [][(/\ pc = "delay"
           /\ outcome.detail \in {"fault", "exhausted"}
           /\ UsesMultipart(loc.size)) =>
             /\ pc' \notin MultipartPositions
             /\ used'.calls = used.calls
         ]_vars
    /\ []((/\ pc \in {"delay", "loop"}
           /\ outcome.detail \in {"fault", "exhausted"}
           /\ UsesMultipart(loc.size)) =>
             /\ <<loc.bucket, loc.key_name, loc.upload_id>>
                    \notin DOMAIN key_verification
             /\ \A o \in server.objects : o.v # loc.upload_id)

\* the first part of a multipart archive has failed with the injected
\* fault, parts being left to upload
C13_WitnessAbortedAtPart ==
    /\ pc = "delay"
    /\ outcome.detail = "fault"
    /\ UsesMultipart(loc.size)
    /\ loc.part_num = 1
    /\ loc.part_num < Len(loc.part_sizes)
    /\ loc.upload_id # -1

\* C14 (as the code has it): the multipart path divides a size s, which is
\* greater than 2 * multipart-part-size, into floor(s / part size) parts:
\* the number n of parts satisfies n * part size <= s < (n + 1) * part size
C14_PartCountRoundedDown ==
    loc.part_sizes # <<>> =>
        LET n == Len(loc.part_sizes)
            base_size == cfg.multipart_part_size
        IN  /\ loc.size > 2 * base_size
            /\ n * base_size <= loc.size
            /\ loc.size < (n + 1) * base_size

\* C14 (as stated): the multipart path divides a size s into
\* ceil(s / part size) parts: (n - 1) * part size < s <= n * part size
C14_PartCountRoundedUp ==
    loc.part_sizes # <<>> =>
        LET n == Len(loc.part_sizes)
            base_size == cfg.multipart_part_size
        IN  /\ (n - 1) * base_size < loc.size
            /\ loc.size <= n * base_size

\* a size that is no multiple of the part size has been divided into parts
C14_WitnessRemainder ==
    /\ pc = "initiate-multipart"
    /\ loc.part_sizes # <<>>
    /\ loc.size % cfg.multipart_part_size # 0

\* C15: _archive takes the multipart path exactly when the size drawn is
\* greater than 2 * multipart-part-size; then the list of parts is not
\* empty, the sizes add up to the size drawn, every part but the last has
\* the part size, the last has at least the part size and less than twice
\* the part size; and the parts are uploaded in order, numbered from 1, up
\* to the last one before complete_upload is called
C15_PathAndParts ==
    /\ [](pc \in MultipartPositions =>
             loc.size > 2 * cfg.multipart_part_size)
    /\ [](pc = "archive-one-file" =>
             loc.size <= 2 * cfg.multipart_part_size)
    /\ [](pc \in MultipartPositions =>
             LET parts == loc.part_sizes
                 base_size == cfg.multipart_part_size
             IN  /\ Len(parts) >= 1
                 /\ SeqSum(parts) = loc.size
                 /\ \A i \in 1..(Len(parts) - 1) : parts[i] = base_size
                 /\ parts[Len(parts)] >= base_size
                 /\ parts[Len(parts)] < 2 * base_size)
    /\ [][(pc = "initiate-multipart" /\ pc' = "upload-part") =>
             loc'.part_num = 1 /\ loc'.data = <<>>]_vars
    /\ [][(pc = "upload-part" /\ loc'.data # loc.data) =>
             /\ Len(loc.data) =
                    SeqSum(SubSeq(loc.part_sizes, 1, loc.part_num - 1))
             /\ Len(loc'.data) =
                    Len(loc.data) + loc.part_sizes[loc.part_num]
             /\ pc' = "upload-part" => loc'.part_num = loc.part_num + 1
             /\ pc' = "complete-upload" =>
                    loc.part_num = Len(loc.part_sizes)
         ]_vars
    /\ [][pc' = "complete-upload" => pc \in {"upload-part", "complete-upload",
                                             "complete-upload-wait"}]_vars

\* every part of a size divided into two parts, the last of them as large
\* as a last part can be, has been uploaded
C15_WitnessLargestLastPart ==
    /\ pc = "complete-upload"
    /\ cfg.multipart_part_size > 1
    /\ Len(loc.part_sizes) = 2
    /\ loc.part_sizes[2] = 2 * cfg.multipart_part_size - 1
    /\ Len(loc.data) = loc.size

\* _create_unversioned_bucket is about to call BucketNameManager.next()
NextCalled ==
    /\ pc \in {"create-bucket", "create-versioned-bucket"}
    /\ Cardinality(DOMAIN buckets) < cfg.max_bucket_count

\* the names of the buckets created in this step
Issued == DOMAIN buckets' \ DOMAIN buckets

\* C16: BucketNameManager.next(), the service creating the bucket asked
\* for: with the highest value below max-bucket-count, the highest value
\* grows by 1 and is the name returned, the deleted names staying as they
\* are; otherwise, with deleted names at hand, the name deleted last is
\* taken off the list and returned; otherwise None is returned, the manager
\* stays as it is and no bucket is created
C16_NextName ==
    [][(NextCalled /\ pc' # pc) =>
          LET highest == bucket_name_manager.highest_bucket_value
              deleted == bucket_name_manager.deleted_bucket_names
              after == bucket_name_manager'
          IN  IF highest < cfg.max_bucket_count
              THEN /\ after.highest_bucket_value = highest + 1
                   /\ after.deleted_bucket_names = deleted
                   /\ Issued = {highest + 1}
              ELSE IF deleted # <<>>
              THEN /\ after.highest_bucket_value = highest
                   /\ after.deleted_bucket_names =
                          SubSeq(deleted, 1, Len(deleted) - 1)
                   /\ Issued = {deleted[Len(deleted)]}
              ELSE /\ after = bucket_name_manager
                   /\ Issued = {}
                   /\ outcome'.detail = "ignored"
                   /\ server' = server
       ]_vars

\* a bucket was created under the name deleted last, the name deleted
\* before it staying with the manager
C16_WitnessLastDeletedFirst ==
    /\ pc = "delay"
    /\ outcome.detail = "created"
    /\ bucket_name_manager.highest_bucket_value = cfg.max_bucket_count
    /\ Len(bucket_name_manager.deleted_bucket_names) = 1
    /\ loc.bucket \in SeededNames
    /\ loc.bucket # bucket_name_manager.deleted_bucket_names[1]

\* C17 (as the code has it): a manager that has seen the bucket names 1, 3
\* and 5, max-bucket-count being 6, returns 6 at the first call of next()
\* and never 2 or 4; from then on next() returns the name deleted last, or
\* None when no deleted name is at hand
C17_CeilingIssuedFirst ==
    /\ [][(/\ NextCalled /\ pc' # pc
           /\ bucket_name_manager.highest_bucket_value = 5) =>
             /\ Issued = {6}
             /\ bucket_name_manager'.highest_bucket_value = 6
         ]_vars
    /\ [][(/\ NextCalled /\ pc' # pc
           /\ bucket_name_manager.highest_bucket_value = 6) =>
             LET deleted == bucket_name_manager.deleted_bucket_names IN
             IF deleted = <<>>
             THEN Issued = {} /\ bucket_name_manager' = bucket_name_manager
             ELSE Issued = {deleted[Len(deleted)]}
         ]_vars
    /\ [](pc \in {"delay", "loop"} =>
             bucket_name_manager.highest_bucket_value \in {5, 6})
    /\ [](2 \notin DOMAIN buckets /\ 4 \notin DOMAIN buckets)

\* C17 (as stated): a manager that has seen the bucket names 1, 3 and 5,
\* max-bucket-count being 6, returns at successive calls of next() the
\* names 2, 4 and 6: while no name was deleted, the names created are none,
\* 2, 2 and 4, or 2, 4 and 6
C17_UnusedSuffixesIssued ==
    /\ [][(/\ NextCalled /\ pc' # pc
           /\ DOMAIN buckets = SeededNames \cup {DefaultBucket}
           /\ bucket_name_manager.deleted_bucket_names = <<>>) =>
             Issued = {2}
         ]_vars
    /\ []((/\ pc \in {"delay", "loop"}
           /\ SeededNames \subseteq DOMAIN buckets
           /\ bucket_name_manager.deleted_bucket_names = <<>>) =>
             DOMAIN buckets \ (SeededNames \cup {DefaultBucket})
                 \in {{}, {2}, {2, 4}, {2, 4, 6}})

\* next() has returned None: the highest value is at max-bucket-count, no
\* deleted name is at hand, and there is room for a bucket
C17_WitnessNoName ==
    /\ pc = "delay"
    /\ outcome.action = "create-bucket"
    /\ outcome.detail = "ignored"
    /\ Cardinality(DOMAIN buckets) < cfg.max_bucket_count
    /\ 6 \in DOMAIN buckets
    /\ bucket_name_manager.deleted_bucket_names = <<>>

\* _initial_inventory passes the next bucket name to existing_bucket_name
ExistingNameSeen ==
    /\ pc = "inventory-bucket"
    /\ loc.bucket_list # <<>>
    /\ <<pc, loc>>' # <<pc, loc>>

\* C18: existing_bucket_name given a reserved name whose number is greater
\* than max-bucket-count fails its assertion: _main_loop raises out of
\* _initial_inventory, no action having run, the manager as it was.  Given
\* any other name it sets the highest value to the greater of the highest
\* value and the number seen, which never lowers it, and the default
\* collection, which has no reserved prefix, leaves the manager as it was
C18_ExistingName ==
    /\ [][(/\ ExistingNameSeen
           /\ Head(loc.bucket_list) # DefaultBucket
           /\ Head(loc.bucket_list) > cfg.max_bucket_count) =>
             /\ pc' = "raised"
             /\ outcome'.action = "inventory-bucket"
             /\ used.actions = 0
             /\ bucket_name_manager' = bucket_name_manager
         ]_vars
    /\ [](pc = "raised" => used.actions = 0)
    /\ [][(/\ ExistingNameSeen
           /\ ~(/\ Head(loc.bucket_list) # DefaultBucket
                /\ Head(loc.bucket_list) > cfg.max_bucket_count)) =>
             LET name == Head(loc.bucket_list)
                 highest == bucket_name_manager.highest_bucket_value
                 after == bucket_name_manager'
             IN  /\ pc' = "inventory-bucket"
                 /\ after.highest_bucket_value >= highest
                 /\ after.highest_bucket_value >= name
                 /\ after.highest_bucket_value \in {highest, name}
                 /\ after.deleted_bucket_names =
                        bucket_name_manager.deleted_bucket_names
                 /\ name = DefaultBucket => after = bucket_name_manager
         ]_vars
    /\ [](\A highest \in 0..cfg.max_bucket_count :
          \A name \in 0..cfg.max_bucket_count :
             LET before == [bucket_name_manager EXCEPT
                               !.highest_bucket_value = highest]
                 after == existing_bucket_name(before, name)
             IN  /\ existing_bucket_name_ok(name)
                 /\ after.highest_bucket_value >= highest
                 /\ after.highest_bucket_value >= name
                 /\ after.highest_bucket_value \in {highest, name}
                 /\ name = DefaultBucket => after = before)

\* _main_loop has raised out of _initial_inventory at the reserved
\* collection 7, max-bucket-count being 6
C18_WitnessFatal ==
    /\ pc = "raised"
    /\ outcome.action = "inventory-bucket"
    /\ 7 \in DOMAIN buckets
    /\ cfg.max_bucket_count < 7
    /\ used.faults = 0

\* _initial_inventory is over: every key name of the service was passed to
\* existing_key_name
InventoryTaken ==
    LET inventory == {"connect", "inventory", "inventory-bucket"}
    IN  /\ pc \notin inventory
        /\ pc = "raised" => outcome.action \notin inventory

\* the listings of one or two keys with the names 0 .. 3
SmallListings ==
    {<<[k |-> a]>> : a \in 0..3}
    \cup {<<[k |-> a], [k |-> b]>> : a \in 0..3, b \in 0..3}

\* C19: the key name generator never yields a name again: existing_key_name
\* (taken, when _initial_inventory starts, over every small listing) never
\* lowers the highest value and raises it to the name seen, whatever the
\* order of the names; once _initial_inventory is over no key of the
\* service and no entry of the ledger has a name above the highest value;
\* and each name yielded is the highest value plus 1, which becomes the
\* highest value
C19_FreshKeyNames ==
    /\ [](pc = "inventory" =>
             \A value \in 0..3 : \A keys \in SmallListings :
                /\ existing_key_names(value, keys) >= value
                /\ \A i \in DOMAIN keys :
                       existing_key_names(value, keys) >= keys[i].k)
    /\ [](InventoryTaken =>
             /\ \A o \in server.objects : o.k <= max_key_value
             /\ \A entry \in DOMAIN key_verification :
                    entry[2] <= max_key_value)
    /\ [][max_key_value' # max_key_value =>
             \/ pc = "inventory-bucket" /\ max_key_value' > max_key_value
             \/ /\ pc \in {"archive-new-key", "archive-new-version",
                           "archive-overwrite"}
                /\ max_key_value' = max_key_value + 1
                /\ loc'.key_name = max_key_value'
                /\ \A o \in server.objects : o.k # loc'.key_name
         ]_vars

\* the generator has yielded a name for the second time, the first one
\* being archived, keys having been seen by _initial_inventory
C19_WitnessSecondYield ==
    /\ pc \in {"archive-one-file", "initiate-multipart"}
    /\ loc.key_name = max_key_value
    /\ \E entry \in DOMAIN key_verification : entry[2] = max_key_value - 1
    /\ max_key_value - 1 >
           existing_key_names(0, ListOf(UsedService.objects))
    /\ \E o \in server.objects : o.k < max_key_value - 1

\* the errors of a ledger check, case by case: no entry; an entry without
\* a digest; size and digest as expected; neither as expected; one of them
ExpectedErrors(ledger, entry, size, digest) ==
    IF entry \notin DOMAIN ledger THEN 1
    ELSE CASE ledger[entry][2] = None ->
                  IF size = ledger[entry][1] THEN 0 ELSE 1
           [] size = ledger[entry][1] /\ digest = ledger[entry][2] -> 0
           [] size # ledger[entry][1] /\ digest # ledger[entry][2] -> 2
           [] OTHER -> 1

\* C20: what _verify_key (in a retrieve) and _verify_key_final (in
\* _verify_after) add to the error count for an object seen with a size and
\* a digest: 1 when the ledger has no entry for it; otherwise 1 for a size
\* that is not the expected one plus 1 for a digest that is not the
\* expected one, nothing for the digest when the expected digest is None.
\* _verify_key leaves the ledger as it is, _verify_key_final takes the
\* entry out.  The table is checked for every small entry and observation
\* when _initial_inventory starts, and at every read of a run
C20_LedgerCheck ==
    /\ [](pc = "inventory" =>
             \A size \in 0..2 : \A digest \in 1..2 :
                /\ VerifyErrors(<< >>, <<0, 1, 1>>, size, digest) = 1
                /\ \A expected_size \in 0..2 :
                   \A expected_digest \in {None, 1, 2} :
                      LET ledger == <<0, 1, 1>> :>
                                        <<expected_size, expected_digest>>
                      IN  /\ VerifyErrors(ledger, <<0, 1, 1>>, size, digest)
                               = ExpectedErrors(ledger, <<0, 1, 1>>, size,
                                                digest)
                          /\ VerifyErrors(ledger, <<0, 1, 2>>, size, digest)
                               = 1)
    /\ [][(pc = "retrieve" /\ outcome'.detail = "success") =>
             LET entry == <<loc.bucket, loc.key_name, loc.version>>
                 bytes_out ==
                     bucket_accounting'[loc.bucket].success_bytes_out
                     - bucket_accounting[loc.bucket].success_bytes_out
             IN  /\ key_verification' = key_verification
                 /\ \E written \in DataRead("ok", loc.data)
                                    \cup DataRead("corrupt", loc.data) :
                       /\ Len(written) = bytes_out
                       /\ used'.faults = used.faults => written = loc.data
                       /\ error_count' = error_count
                              + ExpectedErrors(key_verification, entry,
                                               Len(written), Md5(written))
         ]_vars
    /\ [][(/\ pc = "verify-after-key" /\ loc.keys # <<>>
           /\ pc' = "verify-after-key") =>
             LET key == Head(loc.keys)
                 entry == <<loc.bucket, key.k, key.v>>
                 bytes_out == server'.stats[loc.bucket].success_bytes_out
                              - server.stats[loc.bucket].success_bytes_out
             IN  /\ key_verification' = Drop(key_verification, {entry})
                 /\ \E result \in DataRead("ok", key.data)
                                   \cup DataRead("corrupt", key.data) :
                       /\ Len(result) = bytes_out
                       /\ used'.faults = used.faults => result = key.data
                       /\ error_count' = error_count
                              + ExpectedErrors(key_verification, entry,
                                               Len(result), Md5(result))
         ]_vars

\* a retrieve of an object archived in parts, the expected digest being
\* None, was cut short: one error, for the size, was counted
C20_WitnessSizeOnly ==
    /\ pc = "delay"
    /\ outcome.action \in {"retrieve-latest", "retrieve-version"}
    /\ outcome.detail = "success"
    /\ <<loc.bucket, loc.key_name, loc.version>> \in DOMAIN key_verification
    /\ key_verification[<<loc.bucket, loc.key_name, loc.version>>][2] = None
    /\ error_count = outcome.errors + 1

-----------------------------------------------------------------------------
\* C21: the check that _verify_after makes of a listed object removes the
\* looked-up entry from the ledger whether the entry was missing, matched
\* or mismatched, and leaves every other entry as it was; a further check
\* of the same composite key finds no entry and counts one error
C21_FinalCheckRemoves ==
    [][(/\ pc = "verify-after-key" /\ loc.keys # <<>>
        /\ pc' = "verify-after-key") =>
          LET key == Head(loc.keys)
              entry == <<loc.bucket, key.k, key.v>>
          IN  /\ entry \notin DOMAIN key_verification'
              /\ DOMAIN key_verification' = DOMAIN key_verification \ {entry}
              /\ \A other \in DOMAIN key_verification' :
                    key_verification'[other] = key_verification[other]
              /\ VerifyErrors(key_verification', entry, Len(key.data),
                              Md5(key.data)) = 1
      ]_vars

\* a listed object was checked, found to differ from its entry and the
\* entry removed, while entries of other objects are still in the ledger
C21_WitnessMismatchRemoved ==
    /\ pc = "verify-after-key"
    /\ error_count > 0
    /\ DOMAIN key_verification # {}
    /\ \E o \in server.objects :
          /\ o.b = loc.bucket
          /\ \A i \in DOMAIN loc.keys :
                <<loc.keys[i].k, loc.keys[i].v>> # <<o.k, o.v>>
          /\ <<o.b, o.k, o.v>> \notin DOMAIN key_verification

-----------------------------------------------------------------------------
\* C22: _verify_after removes from the ledger the entries of the objects
\* listed to it and no other: the listing of a bucket leaves the ledger
\* alone and the check of a listed object removes its entry only.  After
\* the last bucket every entry still in the ledger, being matched by no
\* listed object, is counted as one error, on top of the errors of the
\* checks, and no error is counted when no entry is left.
C22_UnreachableKeys ==
    /\ [][(/\ pc = "verify-after-bucket" /\ loc.bucket_list = <<>>
           /\ pc' # pc) =>
             /\ error_count' = error_count
                                  + Cardinality(DOMAIN key_verification)
             /\ key_verification = <<>> => error_count' = error_count
             /\ key_verification' = key_verification
          ]_vars
    /\ [][(pc = "verify-after-bucket" /\ loc.bucket_list # <<>>) =>
             /\ key_verification' = key_verification
             /\ error_count' = error_count
             /\ pc' = "verify-after-key" =>
                   \A i \in DOMAIN loc'.keys :
                      StoredAs(server, <<loc'.bucket, loc'.keys[i].k,
                                         loc'.keys[i].v>>) # {}
          ]_vars
    /\ [][(pc = "verify-after-key") =>
             \A entry \in DOMAIN key_verification :
                entry \in DOMAIN key_verification'
                \/ (/\ loc.keys # <<>>
                    /\ entry = <<loc.bucket, Head(loc.keys).k,
                                 Head(loc.keys).v>>)
          ]_vars

\* the service listed none of the two objects it holds and _verify_after
\* ended with their two entries in the ledger: two errors were counted
C22_WitnessTwoUnreachable ==
    /\ pc \in {"audit-after", "close"}
    /\ cfg.verify_after
    /\ Cardinality(DOMAIN key_verification) = 2
    /\ \A entry \in DOMAIN key_verification : StoredAs(server, entry) # {}
    /\ error_count >= 2

-----------------------------------------------------------------------------
\* C23: when delete-key has deleted key k of bucket b, the ledger holds no
\* entry (b, k, v) for any v, and every entry of another bucket or another
\* key name is in the ledger with the value it had
C23_DeleteKeyPurges ==
    [][(/\ pc = "delete-key-loop" /\ pc' = "delay"
        /\ outcome'.detail = "success") =>
          /\ \A o \in server'.objects :
                ~(o.b = loc.bucket /\ o.k = loc.key_name)
          /\ \A entry \in DOMAIN key_verification' :
                ~(entry[1] = loc.bucket /\ entry[2] = loc.key_name)
          /\ \A entry \in DOMAIN key_verification :
                (entry[1] # loc.bucket \/ entry[2] # loc.key_name) =>
                   /\ entry \in DOMAIN key_verification'
                   /\ key_verification'[entry] = key_verification[entry]
          /\ DOMAIN key_verification' \subseteq DOMAIN key_verification
      ]_vars

\* delete-key deleted a key that had its entry in the ledger, and the
\* entry of another key of the same bucket is still there
C23_WitnessOtherKeyKept ==
    /\ pc = "delay"
    /\ outcome.action = "delete-key"
    /\ outcome.detail = "success"
    /\ loc.calls > 0
    /\ \E entry \in DOMAIN key_verification :
          entry[1] = loc.bucket /\ entry[2] # loc.key_name

-----------------------------------------------------------------------------
\* C24: when delete-bucket on bucket b has ended without error, the ledger
\* holds no entry of b, the accounting of b is marked ended, b is in
\* neither list of names nor in the map of the live buckets, and the name
\* of b is in the pool of names to hand out again.  No step of the action
\* changes the entry or the counters of another bucket.
C24_BucketDeleted ==
    /\ [](pc = "delay" /\ outcome.action = "delete-bucket"
          /\ outcome.detail = "deleted" =>
             /\ \A entry \in DOMAIN key_verification :
                   entry[1] # loc.bucket
             /\ bucket_accounting[loc.bucket].end_marks > 0
             /\ loc.bucket \notin DOMAIN buckets
             /\ loc.bucket \notin Range(versioned_bucket_names)
             /\ loc.bucket \notin Range(unversioned_bucket_names)
             /\ loc.bucket \in Range(bucket_name_manager.deleted_bucket_names)
             /\ loc.bucket \notin DOMAIN server.buckets)
    /\ [][(pc \in {"delete-bucket", "clear-bucket", "clear-bucket-wait"}
           /\ <<pc, loc>>' # <<pc, loc>>) =>
             /\ \A entry \in DOMAIN key_verification :
                   (\/ entry[1] \in DOMAIN buckets'
                    \/ pc # "delete-bucket" /\ entry[1] # loc.bucket) =>
                      /\ entry \in DOMAIN key_verification'
                      /\ key_verification'[entry] = key_verification[entry]
             /\ DOMAIN key_verification' \subseteq DOMAIN key_verification
             /\ \A other \in DOMAIN bucket_accounting :
                   (\/ other \in DOMAIN buckets'
                    \/ pc # "delete-bucket" /\ other # loc.bucket) =>
                      bucket_accounting'[other] = bucket_accounting[other]
             /\ DOMAIN bucket_accounting' = DOMAIN bucket_accounting
          ]_vars

\* delete-bucket has deleted a versioned bucket that held two versions of
\* a key, while the ledger holds the entry of a key of another bucket
C24_WitnessOtherBucketKept ==
    /\ pc = "delay"
    /\ outcome.action = "delete-bucket"
    /\ outcome.detail = "deleted"
    /\ loc.versioning
    /\ bucket_accounting[loc.bucket].delete_success = 2
    /\ key_verification # <<>>

-----------------------------------------------------------------------------
\* C25: archive-overwrite takes the entry of the key it has chosen out of
\* the ledger before it archives, so that no entry of the key is in the
\* ledger while the archive runs; when the archive of key k of the
\* unversioned bucket b has succeeded, the entry written was not in the
\* ledger before (no duplicate key is logged), it is the only entry of
\* (b, k), and it describes the only object the service holds of (b, k)
C25_OverwriteOneEntry ==
    /\ [][(pc = "archive-overwrite"
           /\ pc' \in {"archive-one-file", "initiate-multipart"}) =>
             \A entry \in DOMAIN key_verification' :
                ~(entry[1] = loc'.bucket /\ entry[2] = loc'.key_name)
          ]_vars
    /\ [][(/\ loc.action = "archive-overwrite"
           /\ pc \in {"archive-one-file", "complete-upload"}
           /\ outcome'.detail = "success") =>
             /\ \A entry \in
                      DOMAIN key_verification' \ DOMAIN key_verification :
                   /\ entry[1] = loc.bucket /\ entry[2] = loc.key_name
                   /\ \E o \in server'.objects :
                         /\ <<o.b, o.k, o.v>> = entry
                         /\ key_verification'[entry][1] = Len(o.data)
                         /\ key_verification'[entry][2]
                               \in {None, Md5(o.data)}
                         /\ \A p \in server'.objects :
                               p.b = o.b /\ p.k = o.k => p = o
             /\ Cardinality({entry \in DOMAIN key_verification' :
                    entry[1] = loc.bucket /\ entry[2] = loc.key_name}) = 1
             /\ Cardinality(DOMAIN key_verification')
                    = Cardinality(DOMAIN key_verification) + 1
          ]_vars

\* key 1 of the default collection, whose version 1 had its entry in the
\* ledger, was written over: the ledger holds the entry of the new version
\* and no entry of the old one
C25_WitnessPriorEntryReplaced ==
    /\ pc = "delay"
    /\ outcome.action = "archive-overwrite"
    /\ outcome.detail = "success"
    /\ cfg.verify_before
    /\ loc.bucket = DefaultBucket /\ loc.key_name = 1 /\ loc.version > 1
    /\ <<DefaultBucket, 1, loc.version>> \in DOMAIN key_verification
    /\ <<DefaultBucket, 1, 1>> \notin DOMAIN key_verification

-----------------------------------------------------------------------------
\* C26: when get_space_used reports a bucket with one interval of
\* statistics, or with none (the server values then being zeros),
\* _audit_after goes on to the next bucket having counted as many audit
\* errors as there are fields, of the six, whose local value differs from
\* the server's; after the last bucket the audit errors are added to the
\* error count
C26_AuditReconciles ==
    /\ [][(/\ pc = "audit-bucket" /\ loc.bucket_list # <<>>
           /\ used'.calls = used.calls + 1
           /\ Head(loc.bucket_list) \in DOMAIN bucket_accounting
           /\ loc'.result \in {"ok", "none", "misreport"}) =>
             /\ pc' = "audit-bucket"
             /\ loc'.bucket_list = Tail(loc.bucket_list)
             /\ \E server_audit \in
                   IF loc'.result = "none" THEN {NoServerData}
                   ELSE ServerAudits(loc'.result,
                                     server.stats[Head(loc.bucket_list)]) :
                   loc'.audit_error_count = loc.audit_error_count
                      + Cardinality({f \in AuditFields :
                           bucket_accounting[Head(loc.bucket_list)][f]
                              # server_audit[f]})
          ]_vars
    /\ [][(pc = "audit-bucket" /\ loc.bucket_list = <<>> /\ pc' # pc) =>
             error_count' = error_count + loc.audit_error_count
          ]_vars

-----------------------------------------------------------------------------
\* C27: a bucket that get_space_used reports with more than one interval,
\* or with success false, is counted as one audit error and none of its
\* fields is compared; _audit_after then goes on with the buckets that
\* remain: whatever get_space_used returns for the next bucket, that
\* bucket is dealt with and the audit goes on to the one after it
C27_AuditGoesOn ==
    /\ [][(/\ pc = "audit-bucket" /\ loc.bucket_list # <<>>
           /\ loc' # loc /\ loc'.result \in {"many", "failed"}) =>
             /\ pc' = "audit-bucket"
             /\ loc'.bucket_list = Tail(loc.bucket_list)
             /\ loc'.audit_error_count = loc.audit_error_count + 1
             /\ error_count' = error_count
          ]_vars
    /\ [][(/\ pc = "audit-bucket" /\ loc.bucket_list # <<>>
           /\ loc.result \in {"many", "failed"}
           /\ Head(loc.bucket_list) \in DOMAIN bucket_accounting
           /\ loc' # loc) =>
             /\ pc' = "audit-bucket"
             /\ loc'.bucket_list = Tail(loc.bucket_list)
          ]_vars

-----------------------------------------------------------------------------
\* C28: a retrieve answered with status 404 is not tried again: the
\* handler returns after the one call, having counted one retrieve_error;
\* the error count, retrieve_success, success_bytes_out and the ledger
\* are as they were.  A retrieve answered with another HTTP error status
\* counts one retrieve_error as well, and the error, raised again, is
\* counted as one error by the main loop.
C28_RetrieveNotFound ==
    [][(pc = "retrieve" /\ used'.calls = used.calls + 1
        /\ outcome'.detail \in {"notfound", "httperror"}) =>
          LET before == bucket_accounting[loc.bucket]
              after == bucket_accounting'[loc.bucket]
          IN  /\ pc' = "delay"
              /\ loc'.calls = 1
              /\ used'.faults = used.faults + 1
              /\ after = [before EXCEPT !.retrieve_request = @ + 1,
                                        !.retrieve_error = @ + 1]
              /\ \A other \in DOMAIN bucket_accounting \ {loc.bucket} :
                    bucket_accounting'[other] = bucket_accounting[other]
              /\ key_verification' = key_verification
              /\ server' = server
              /\ IF outcome'.detail = "notfound"
                 THEN /\ outcome'.result = "returned"
                      /\ error_count' = error_count
                 ELSE /\ outcome'.result = "raised"
                      /\ error_count' = error_count + 1
      ]_vars

\* retrieve-version was answered with status 404: the handler returned
\* after one retrieve_error and no error was counted
C28_WitnessNotFound ==
    /\ pc = "delay"
    /\ outcome.action = "retrieve-version"
    /\ outcome.result = "returned"
    /\ outcome.detail = "notfound"
    /\ bucket_accounting[loc.bucket].retrieve_error = 1
    /\ error_count = outcome.errors
    /\ key_verification # <<>>

-----------------------------------------------------------------------------
\* C29: for a distribution whose weights, percentages that are not
\* negative, sum to 100, _load_frequency_table builds a table of exactly
\* 100 slots of which weight(A) hold the handler of action A, and the
\* main loop is entered; for a distribution whose weights do not sum to
\* 100 the table has not 100 slots, _load_frequency_table raises out of
\* _main_loop, and no action is ever dispatched
C29_FrequencyTable ==
    /\ [](pc = "load-frequency-table" =>
            /\ \A i \in DOMAIN TableActions :
                  cfg.distribution[TableActions[i]] >= 0
            /\ IF SeqSum([i \in DOMAIN TableActions |->
                             cfg.distribution[TableActions[i]]]) = 100
               THEN /\ Len(frequency_table) = 100
                    /\ \A a \in DOMAIN cfg.distribution :
                          Cardinality({i \in DOMAIN frequency_table :
                                          frequency_table[i] = a})
                             = cfg.distribution[a]
               ELSE Len(frequency_table) # 100)
    /\ [][(pc = "load-frequency-table" /\ pc' # pc) =>
             IF SeqSum([i \in DOMAIN TableActions |->
                           cfg.distribution[TableActions[i]]]) = 100
             THEN pc' = "delay" /\ outcome' = outcome
             ELSE pc' = "raised" /\ outcome'.action = "load-frequency-table"
          ]_vars
    /\ [](SeqSum([i \in DOMAIN TableActions |->
                     cfg.distribution[TableActions[i]]]) # 100 =>
            /\ used.actions = 0
            /\ pc \in StartupPositions \cup {"raised"})
    /\ [][(pc = "loop" /\ pc' \in ActionNames) =>
             cfg.distribution[pc'] > 0]_vars

\* the weights being 50, 25 and 25, an action of weight 25 was dispatched
C29_WitnessDispatched ==
    /\ cfg.distribution["archive-new-key"] = 50
    /\ cfg.distribution["archive-overwrite"] = 25
    /\ pc = "delete-key"
    /\ used.actions = 2

-----------------------------------------------------------------------------
\* C30: in a run that dispatches archive-new-key only, with one size s
\* not above the multipart cutoff, no forced failure, a service that never
\* fails and no halt, when N actions have ended the ledger has exactly N
\* entries, the archive_success of the buckets sum to N and their
\* success_bytes_in to N * s, no error has been counted, and a check of
\* every object the service holds against the ledger, which it leaves as
\* it is, finds no error and leaves no entry without its object
C30_EndToEnd ==
    (/\ cfg.distribution["archive-new-key"] = 100
     /\ ~halt_event
     /\ pc \in {"delay", "loop"}) =>
       LET names == SortNames(DOMAIN bucket_accounting)
           total(field) ==
               SeqSum([i \in DOMAIN names |->
                          bucket_accounting[names[i]][field]])
       IN  /\ Cardinality(DOMAIN key_verification) = used.actions
           /\ total("archive_success") = used.actions
           /\ total("success_bytes_in") = used.actions * cfg.min_file_size
           /\ total("archive_request") = used.actions
           /\ error_count = 0
           /\ \A o \in server.objects :
                 VerifyErrors(key_verification, <<o.b, o.k, o.v>>,
                              Len(o.data), Md5(o.data)) = 0
           /\ \A entry \in DOMAIN key_verification :
                 StoredAs(server, entry) # {}

\* every action of the run has archived a key of the largest size, into
\* the default collection and into the reserved one
C30_WitnessAllArchived ==
    /\ cfg.distribution["archive-new-key"] = 100
    /\ cfg.min_file_size = 2 * PartSize
    /\ ~halt_event
    /\ pc = "loop"
    /\ used.actions = MaxActionsTable
    /\ \E e1, e2 \in DOMAIN key_verification : e1[1] # e2[1]

-----------------------------------------------------------------------------
\* C31: between two actions every bucket of the live bucket map is in
\* exactly one of the lists of versioned and of unversioned names, no name
\* is twice in a list, and every name of the lists is that of a bucket of
\* the live bucket map
C31_NamesPartitioned ==
    pc \in {"delay", "loop"} =>
       /\ \A b \in DOMAIN buckets :
             (b \in Range(versioned_bucket_names))
                # (b \in Range(unversioned_bucket_names))
       /\ \A i, j \in DOMAIN versioned_bucket_names :
             versioned_bucket_names[i] = versioned_bucket_names[j] => i = j
       /\ \A i, j \in DOMAIN unversioned_bucket_names :
             unversioned_bucket_names[i] = unversioned_bucket_names[j]
                => i = j
       /\ Range(versioned_bucket_names) \cup Range(unversioned_bucket_names)
             \subseteq DOMAIN buckets

-----------------------------------------------------------------------------
\* C32: in delete-key, delete-version and the loops that clear a bucket,
\* a step adds to delete_success, or takes an entry out of the ledger,
\* only if it made a delete call and the call returned without error
C32_DeleteSuccessCounted ==
    [][(/\ pc \in {"delete-key-loop", "delete-version-loop", "clear-bucket"}
        /\ \/ bucket_accounting'[loc.bucket].delete_success
                 # bucket_accounting[loc.bucket].delete_success
           \/ key_verification' # key_verification) =>
          /\ used'.calls = used.calls + 1
          /\ used'.faults = used.faults
          /\ bucket_accounting'[loc.bucket].delete_success
                = bucket_accounting[loc.bucket].delete_success + 1
      ]_vars

-----------------------------------------------------------------------------
\* C33: _verify_before having entered every object into the ledger, when
\* the first action, an archive-overwrite of a key it has chosen with a
\* size sent in one call, has ended without success, the object the
\* service holds under the key has its entry in the ledger
C33_FailedOverwriteKeepsEntry ==
    (/\ cfg.verify_before
     /\ used.actions = 1
     /\ pc = "delay"
     /\ outcome.action = "archive-overwrite"
     /\ ~UsesMultipart(loc.size)
     /\ outcome.detail \notin {"success", "ignored"}) =>
       \A o \in server.objects :
          (o.b = loc.bucket /\ o.k = loc.key_name) =>
             <<o.b, o.k, o.v>> \in DOMAIN key_verification

-----------------------------------------------------------------------------
\* C34: when complete_upload has returned without error, the entry of the
\* upload is in the ledger and archive_success is one more, whether or
\* not the halt event was set while the call was in flight; and no step
\* of a multipart archive other than a complete_upload that returned
\* without error adds an entry to the ledger
C34_CompletedUploadRecorded ==
    /\ [][(/\ pc = "complete-upload"
           /\ used'.calls = used.calls + 1
           /\ used'.faults = used.faults) =>
             /\ <<loc.bucket, loc.key_name, loc.upload_id>>
                   \in DOMAIN key_verification'
             /\ bucket_accounting'[loc.bucket].archive_success
                   = bucket_accounting[loc.bucket].archive_success + 1
          ]_vars
    /\ [][(/\ pc \in MultipartPositions
           /\ DOMAIN key_verification' # DOMAIN key_verification) =>
             /\ pc = "complete-upload"
             /\ used'.calls = used.calls + 1
             /\ used'.faults = used.faults
          ]_vars

-----------------------------------------------------------------------------
\* C35: between two actions every suffix from 1 to the highest value of
\* the bucket name manager is the name of a live bucket or is in the list
\* of the deleted names, and while fewer than max-bucket-count buckets
\* are live, next() returns a name
C35_NoNameLeaked ==
    pc \in {"delay", "loop"} =>
       /\ \A name \in 1..bucket_name_manager.highest_bucket_value :
             \/ name \in DOMAIN buckets
             \/ name \in Range(bucket_name_manager.deleted_bucket_names)
       /\ Cardinality(DOMAIN buckets) < cfg.max_bucket_count =>
             next_name(bucket_name_manager) # -1

-----------------------------------------------------------------------------
\* C36: no name is twice in the list of the deleted names, and every name
\* of the list, the name next() would return among them, is neither the
\* name of a live bucket nor the name of a bucket the service holds
C36_PoolNamesFree ==
    LET pool == bucket_name_manager.deleted_bucket_names IN
    /\ \A i, j \in DOMAIN pool : pool[i] = pool[j] => i = j
    /\ \A i \in DOMAIN pool :
          /\ pool[i] \notin DOMAIN buckets
          /\ pool[i] \notin DOMAIN server.buckets
    /\ (pc \in {"delay", "loop"} /\ next_name(bucket_name_manager) # -1) =>
          /\ next_name(bucket_name_manager) \notin DOMAIN buckets
          /\ next_name(bucket_name_manager) \notin DOMAIN server.buckets

-----------------------------------------------------------------------------
\* C37: for every bucket listmatch_success is at most listmatch_request,
\* and no step, that of a listing of _verify_before, of _verify_after or
\* of a handler included, adds more than 1 to listmatch_request or to
\* listmatch_success of a bucket
C37_ListmatchCounted ==
    /\ [](\A b \in DOMAIN bucket_accounting :
             bucket_accounting[b].listmatch_success
                <= bucket_accounting[b].listmatch_request)
    /\ [][\A b \in DOMAIN bucket_accounting \cap DOMAIN bucket_accounting' :
             /\ bucket_accounting'[b].listmatch_success
                   <= bucket_accounting[b].listmatch_success + 1
             /\ bucket_accounting'[b].listmatch_request
                   <= bucket_accounting[b].listmatch_request + 1
          ]_vars

-----------------------------------------------------------------------------
\* C38: in a run in which no call has failed, when _audit_after comes to
\* a bucket, each of the six fields has in the accounting of the bucket
\* the value the service has counted, and when the service reports these
\* values in one interval, _audit_after goes on to the next bucket having
\* counted no audit error
C38_NoFalseAlarm ==
    /\ []((/\ pc = "audit-bucket" /\ loc.bucket_list # <<>>
           /\ used.faults = 0
           /\ Head(loc.bucket_list) \in DOMAIN bucket_accounting) =>
             \A f \in AuditFields :
                bucket_accounting[Head(loc.bucket_list)][f]
                   = server.stats[Head(loc.bucket_list)][f])
    /\ [][(/\ pc = "audit-bucket" /\ loc.bucket_list # <<>>
           /\ used'.faults = 0
           /\ loc' # loc /\ loc'.result = "ok") =>
             /\ pc' = "audit-bucket"
             /\ loc'.audit_error_count = loc.audit_error_count
          ]_vars

\* C39: if the initial inventory finds at most max-bucket-count buckets,
\* the agent never tracks more than max-bucket-count live buckets; a
\* create-bucket action at the ceiling, or one to which the allocator
\* returns no name, makes no call of the service and changes nothing of
\* the agent's state nor of the service's
C39_BucketCeiling ==
    /\ (Cardinality(DOMAIN server.buckets) <= cfg.max_bucket_count) =>
           [](Cardinality(DOMAIN buckets) <= cfg.max_bucket_count)
    /\ [][(/\ pc \in {"create-bucket", "create-versioned-bucket"}
           /\ pc' # pc
           /\ \/ Cardinality(DOMAIN buckets) >= cfg.max_bucket_count
              \/ next_name(bucket_name_manager) = -1) =>
             /\ used'.calls = used.calls
             /\ UNCHANGED <<customer_vars, server, loc>>
             /\ outcome'.detail = "ignored"
         ]_vars

\* a create-bucket action has run at the ceiling, the inventory having
\* found as many buckets as max-bucket-count: nothing was created
C39_WitnessAtCeiling ==
    /\ pc = "delay"
    /\ outcome.action = "create-bucket"
    /\ outcome.detail = "ignored"
    /\ Cardinality(DOMAIN buckets) = cfg.max_bucket_count
    /\ DOMAIN buckets = DOMAIN server.buckets
    /\ bucket_name_manager.highest_bucket_value < cfg.max_bucket_count

\* a create-bucket action has run below the ceiling and the allocator had
\* no name to return
C39_WitnessNoNameBelowCeiling ==
    /\ pc = "delay"
    /\ outcome.action = "create-bucket"
    /\ outcome.detail = "ignored"
    /\ Cardinality(DOMAIN buckets) < cfg.max_bucket_count
    /\ next_name(bucket_name_manager) = -1

\* the versions the service holds of the key chosen by the handler
VersionsOfChosenKey(srv) ==
    {o \in srv.objects : o.b = loc.bucket /\ o.k = loc.key_name}

\* C40: delete-version deletes only a version of a key that has more than
\* one version in the chosen versioned bucket, so that a version of the
\* key is left when it has deleted one; when no key of the bucket has
\* more than one version it makes no delete call and changes neither the
\* delete counters nor the ledger
C40_DeleteVersionLeavesOne ==
    /\ [](pc \in {"delete-version-loop", "delete-version-wait"} =>
             /\ loc.bucket \in Range(versioned_bucket_names)
             /\ Cardinality(VersionsOfChosenKey(server)) > 1
             /\ \E o \in VersionsOfChosenKey(server) : o.v = loc.version)
    /\ [][(pc = "delete-version-loop" /\ server'.objects # server.objects) =>
             /\ server.objects \ server'.objects =
                    {o \in VersionsOfChosenKey(server) : o.v = loc.version}
             /\ server'.objects \subseteq server.objects
             /\ VersionsOfChosenKey(server') # {}
         ]_vars
    /\ [][(/\ pc = "delete-version" /\ pc' # pc
           /\ \A b \in Range(versioned_bucket_names) :
                  keys_with_multiple_versions(
                      get_all_versions(server, b)) = <<>>) =>
             /\ pc' = "delay"
             /\ used'.calls <= used.calls + 1
             /\ server'.objects = server.objects
             /\ key_verification' = key_verification
             /\ \A b \in DOMAIN bucket_accounting :
                   \A f \in {"delete_request", "delete_success",
                              "delete_error"} :
                      bucket_accounting'[b][f] = bucket_accounting[b][f]
         ]_vars

\* delete-version has deleted one version of a key of which the service
\* still holds another
C40_WitnessVersionLeft ==
    /\ pc = "delay"
    /\ outcome.action = "delete-version"
    /\ outcome.detail = "success"
    /\ VersionsOfChosenKey(server) # {}
    /\ <<loc.bucket, loc.key_name, loc.version>> \notin DOMAIN key_verification
    /\ \A o \in server.objects :
          ~(o.b = loc.bucket /\ o.k = loc.key_name /\ o.v = loc.version)

\* delete-version has found a key but none with more than one version and
\* has returned
C40_WitnessNothingToDelete ==
    /\ pc = "delay"
    /\ outcome.action = "delete-version"
    /\ outcome.detail = "skipped"
    /\ \E b \in Range(versioned_bucket_names) :
          /\ get_all_versions(server, b) # <<>>
          /\ keys_with_multiple_versions(get_all_versions(server, b)) = <<>>

====
